---- MODULE Spec2Model ----
(***************************************************************************)
(* Vapor: the /v1 gateway (functions/v1/index.js), its stream re-encoder   *)
(* (createStreamTransformer) and the KV ledger it settles against          *)
(* (updateBalance, recordUsage).                                           *)
(*                                                                         *)
(* Wire encoding.  A vendor stream is a sequence of bytes.  Each model     *)
(* byte stands for one token of the wire format:                           *)
(*   "NL"          the newline byte                                        *)
(*   "CR"          a carriage return (white space removed by trim())       *)
(*   "D"           the literal prefix `data: `                             *)
(*   "E"           any other SSE field line (`event: ...`)                 *)
(*   "Z"           the literal `[DONE]`                                    *)
(*   a head        the JSON text of one vendor event up to its text field  *)
(*   "a"           one ASCII character of the event's text                 *)
(*   "L", "C"      lead and continuation byte of one two-byte UTF-8        *)
(*                 character of the event's text                           *)
(*   "}"           the closing of the event's JSON text                    *)
(* After decoding, characters are the same atoms, with "U" for a decoded   *)
(* two-byte character and "F" for U+FFFD.  Clock readings (created, ids    *)
(* built from Date.now()) are left out of the emitted records.  Money is   *)
(* kept in thousandths: price * tokens instead of price * tokens / 1000.   *)
(***************************************************************************)
EXTENDS Integers, Sequences, FiniteSets, TLC

\* ---------------------------------------------------------------- bounds
MaxLines == 2
MaxEvents == 2
MaxRequests == 2
MaxTokens == 3
MaxSegments == 2
MaxTextLen == 2
MaxMessages == 3

\* ------------------------------------------------------------ ProviderType
OPENAI == "openai"
ANTHROPIC == "anthropic"
GEMINI == "gemini"
ProviderType == {OPENAI, ANTHROPIC, GEMINI}

VARIABLES
  \* createStreamTransformer: its arguments, closure variables and controller
  channel, model, inputTokens, outputTokens, buffer, enqueued, finalUsage,
  linesSeen,
  \* the vendor byte stream feeding one transformer
  whole, upstream, closed,
  \* the KV store and env
  kvUsers, kvUsage, hasWaitUntil,
  \* handleChatCompletions: one request in flight
  pc, token, user, body, estimatedInputTokens, estimatedCost, response,
  result, status, error, settlement, fed, nreq,
  \* the calls made for the request in flight, in order
  calls,
  \* the KV store's model records in key order, and handleListModels' answer
  kvModels, listing,
  \* the KV store's orders, and the payment and balance calls in flight
  kvOrders, tasks,
  \* the clock, env.ADMIN_LIST, the KV store's config records, OAuth states,
  \* sessions and channel records, the tokens issued, and the last answer
  now, envAdminList, kvConfig, kvStates, kvSessions, kvChannels, jar, reply

xfVars == <<channel, model, inputTokens, outputTokens, buffer, enqueued,
            finalUsage, linesSeen>>
streamVars == <<whole, upstream, closed>>
kvVars == <<kvUsers, kvUsage, hasWaitUntil>>
reqVars == <<pc, token, user, body, estimatedInputTokens, estimatedCost,
             response, result, status, error, settlement, fed, nreq>>
callVars == <<calls>>
listVars == <<kvModels, listing>>
payVars == <<kvOrders, tasks>>
authVars == <<now, envAdminList, kvConfig, kvStates, kvSessions, kvChannels,
              jar, reply>>
vars == <<xfVars, streamVars, kvVars, reqVars, callVars, listVars, payVars,
          authVars>>

\* ------------------------------------------------------- small arithmetic
CeilDiv(a, b) == (a + b - 1) \div b

\* a || b on numbers: 0 is falsy
OrElse(a, b) == IF a # 0 THEN a ELSE b

\* --------------------------------------------------------- TextDecoder
\* new TextDecoder().decode(chunk): a fresh, non-streaming UTF-8 decoder per
\* chunk.  An incomplete sequence at the end of the chunk and a continuation
\* byte without its lead each decode to U+FFFD.
RECURSIVE TextDecode(_)
TextDecode(bytes) ==
  IF bytes = <<>> THEN <<>>
  ELSE IF Head(bytes) = "L"
    THEN IF Len(bytes) >= 2 /\ bytes[2] = "C"
         THEN <<"U">> \o TextDecode(SubSeq(bytes, 3, Len(bytes)))
         ELSE <<"F">> \o TextDecode(Tail(bytes))
    ELSE IF Head(bytes) = "C"
         THEN <<"F">> \o TextDecode(Tail(bytes))
         ELSE <<Head(bytes)>> \o TextDecode(Tail(bytes))

\* ------------------------------------------------------------ String ops
\* buffer.split('\n'): always at least one element
RECURSIVE Split(_)
Split(s) ==
  IF \A i \in 1..Len(s) : s[i] # "NL" THEN <<s>>
  ELSE LET i == CHOOSE k \in 1..Len(s) :
                  s[k] = "NL" /\ \A j \in 1..(k - 1) : s[j] # "NL"
       IN <<SubSeq(s, 1, i - 1)>> \o Split(SubSeq(s, i + 1, Len(s)))

Whitespace == {"CR"}

\* String.prototype.trim
RECURSIVE Trim(_)
Trim(s) ==
  IF s = <<>> THEN s
  ELSE IF Head(s) \in Whitespace THEN Trim(Tail(s))
  ELSE IF s[Len(s)] \in Whitespace THEN Trim(SubSeq(s, 1, Len(s) - 1))
  ELSE s

\* line.startsWith('data: ')
StartsWithData(line) == line # <<>> /\ Head(line) = "D"

\* the characters of an event's text after decoding: ASCII letters, a decoded
\* two-byte character, U+FFFD
TextChars == {"a", "H", "e", "l", "o", "U", "F"}

\* ------------------------------------------------------- vendor events
\* The JSON objects a vendor sends, by head.  Absent fields read as "none",
\* FALSE or 0.
NoEvent ==
  [type |-> "none", stop_reason |-> "none", hasMessage |-> FALSE,
   message_input |-> 0, finishReason |-> "none", hasUsage |-> FALSE,
   usage_input |-> 0, usage_output |-> 0, model |-> "none",
   finish_reason |-> "null"]

AnthropicHeads == {"ms", "cbd", "md_end", "md_max", "md_use", "ping"}
GeminiHeads == {"g", "g_stop", "g_use"}
OpenAIHeads == {"o", "o_stop", "o_use"}
\* events whose usage block reports 0 for both counts
ZeroHeads == {"md_zero", "g_zero", "o_zero"}
Heads == AnthropicHeads \cup GeminiHeads \cup OpenAIHeads \cup ZeroHeads

UpstreamName == "upstream-name"

EventOf(h) ==
  CASE h = "ms" -> [NoEvent EXCEPT !.type = "message_start",
                                   !.hasMessage = TRUE, !.message_input = 7]
    [] h = "cbd" -> [NoEvent EXCEPT !.type = "content_block_delta"]
    [] h = "md_end" -> [NoEvent EXCEPT !.type = "message_delta",
                                       !.stop_reason = "end_turn"]
    [] h = "md_max" -> [NoEvent EXCEPT !.type = "message_delta",
                                       !.stop_reason = "max_tokens"]
    [] h = "md_use" -> [NoEvent EXCEPT !.type = "message_delta",
                                       !.stop_reason = "end_turn",
                                       !.hasUsage = TRUE, !.usage_output = 9]
    [] h = "md_zero" -> [NoEvent EXCEPT !.type = "message_delta",
                                        !.stop_reason = "end_turn",
                                        !.hasUsage = TRUE]
    [] h = "ping" -> [NoEvent EXCEPT !.type = "ping"]
    [] h = "g" -> NoEvent
    [] h = "g_stop" -> [NoEvent EXCEPT !.finishReason = "STOP"]
    [] h = "g_use" -> [NoEvent EXCEPT !.finishReason = "STOP",
                                      !.hasUsage = TRUE, !.usage_input = 7,
                                      !.usage_output = 9]
    [] h = "g_zero" -> [NoEvent EXCEPT !.hasUsage = TRUE]
    [] h = "o" -> [NoEvent EXCEPT !.type = "chat.completion.chunk",
                                  !.model = UpstreamName]
    [] h = "o_stop" -> [NoEvent EXCEPT !.type = "chat.completion.chunk",
                                       !.model = UpstreamName,
                                       !.finish_reason = "stop"]
    [] h = "o_use" -> [NoEvent EXCEPT !.type = "chat.completion.chunk",
                                      !.model = UpstreamName,
                                      !.hasUsage = TRUE, !.usage_input = 7,
                                      !.usage_output = 9]
    [] h = "o_zero" -> [NoEvent EXCEPT !.type = "chat.completion.chunk",
                                       !.model = UpstreamName,
                                       !.hasUsage = TRUE]

\* JSON.parse(data) succeeds: a head, text characters, the closing
ParseOK(data) ==
  /\ Len(data) >= 2
  /\ data[1] \in Heads
  /\ data[Len(data)] = "}"
  /\ \A i \in 2..(Len(data) - 1) : data[i] \in TextChars

\* JSON.parse(data): the event with its text
JSONParse(data) ==
  [ev |-> EventOf(data[1]), text |-> SubSeq(data, 2, Len(data) - 1)]

\* ----------------------------------------------------- canonical records
\* What controller.enqueue receives: `data: [DONE]` or `data: <chunk JSON>`.
\* src is the number of the vendor line the record was made from.
NoChunk ==
  [kind |-> "chunk", model |-> "none", role |-> "none", content |-> <<>>,
   finish_reason |-> "null", hasUsage |-> FALSE, usage_input |-> 0,
   usage_output |-> 0, src |-> 0]

DoneRecord(n) == [NoChunk EXCEPT !.kind = "done", !.src = n]

\* ------------------------------------------- createStreamTransformer.transform
\* The translation of one parsed event for an Anthropic channel
\* (index.js 133-176).  st holds the running counts and the records enqueued
\* so far; n is the number of the vendor line the event came on.
AnthropicEvent(st, parsed, n, m) ==
  LET ev == parsed.ev
      text == parsed.text
  IN IF ev.type = "content_block_delta" /\ text # <<>>
     THEN [st EXCEPT !.outputTokens = @ + CeilDiv(Len(text), 4),
                     !.out = Append(@, [NoChunk EXCEPT !.model = m,
                                                       !.content = text,
                                                       !.src = n])]
     ELSE IF ev.type = "message_delta"
     THEN [st EXCEPT
             !.inputTokens =
                IF ev.hasUsage THEN OrElse(ev.usage_input, @) ELSE @,
             !.outputTokens =
                IF ev.hasUsage THEN OrElse(ev.usage_output, @) ELSE @,
             !.out = Append(@, [NoChunk EXCEPT
                      !.finish_reason =
                         IF ev.stop_reason = "end_turn" THEN "stop" ELSE "null",
                      !.src = n])]
     ELSE IF ev.type = "message_start" /\ ev.hasMessage
     THEN [st EXCEPT !.inputTokens = OrElse(ev.message_input, 0),
                     !.out = Append(@, [NoChunk EXCEPT !.model = m,
                                                       !.role = "assistant",
                                                       !.src = n])]
     ELSE st

\* The translation of one parsed event for a Gemini channel (index.js 177-197)
GeminiEvent(st, parsed, n, m) ==
  LET ev == parsed.ev
      text == parsed.text
      st1 == IF text # <<>>
             THEN [st EXCEPT
                     !.outputTokens = @ + CeilDiv(Len(text), 4),
                     !.out = Append(@, [NoChunk EXCEPT
                              !.model = m,
                              !.content = text,
                              !.finish_reason =
                                 IF ev.finishReason = "STOP" THEN "stop"
                                                             ELSE "null",
                              !.src = n])]
             ELSE st
  IN IF ev.hasUsage
     THEN [st1 EXCEPT !.inputTokens = OrElse(ev.usage_input, @),
                      !.outputTokens = OrElse(ev.usage_output, @)]
     ELSE st1

\* The pass-through of one parsed event for an OpenAI channel
\* (index.js 198-205): transformed = parsed
OpenAIEvent(st, parsed, n) ==
  LET ev == parsed.ev
      st1 == [st EXCEPT !.out = Append(@, [NoChunk EXCEPT
                           !.model = ev.model,
                           !.content = parsed.text,
                           !.finish_reason = ev.finish_reason,
                           !.hasUsage = ev.hasUsage,
                           !.usage_input = ev.usage_input,
                           !.usage_output = ev.usage_output,
                           !.src = n])]
  IN IF ev.hasUsage
     THEN [st1 EXCEPT !.inputTokens = OrElse(ev.usage_input, @),
                      !.outputTokens = OrElse(ev.usage_output, @)]
     ELSE st1

\* The body of `for (const line of lines)` for one line (index.js 119-213);
\* n is the line's number in the vendor stream.
ProcessLine(st, line, n, p, m) ==
  LET data == Trim(Tail(line))
  IN IF ~StartsWithData(line) THEN st
     ELSE IF data = <<"Z">>
     THEN [st EXCEPT !.out = Append(@, DoneRecord(n))]
     ELSE IF ~ParseOK(data) THEN st
     ELSE IF p = ANTHROPIC THEN AnthropicEvent(st, JSONParse(data), n, m)
     ELSE IF p = GEMINI THEN GeminiEvent(st, JSONParse(data), n, m)
     ELSE OpenAIEvent(st, JSONParse(data), n)

\* a `data: ` line that is not the terminal marker and whose JSON.parse
\* throws (index.js 120-129, 210-212)
Malformed(line) ==
  /\ StartsWithData(line)
  /\ Trim(Tail(line)) # <<"Z">>
  /\ ~ParseOK(Trim(Tail(line)))

\* ProcessLines leaving the loop at the first line that does not parse
RECURSIVE ProcessLines_AbortsOnError(_, _, _, _, _, _)
ProcessLines_AbortsOnError(st, lines, i, base, p, m) ==
  IF i > Len(lines) THEN st
  ELSE IF Malformed(lines[i]) THEN st
  ELSE ProcessLines_AbortsOnError(ProcessLine(st, lines[i], base + i, p, m),
                                  lines, i + 1, base, p, m)

\* ProcessLines with the lines taken last to first
RECURSIVE ProcessLines_Reversed(_, _, _, _, _, _)
ProcessLines_Reversed(st, lines, i, base, p, m) ==
  IF i > Len(lines) THEN st
  ELSE ProcessLine(ProcessLines_Reversed(st, lines, i + 1, base, p, m),
                   lines[i], base + i, p, m)

\* for (const line of lines) { ... } from lines[i] on; lines[1] is vendor
\* line number base + 1
RECURSIVE ProcessLines(_, _, _, _, _, _)
ProcessLines(st, lines, i, base, p, m) ==
  IF i > Len(lines) THEN st
  ELSE ProcessLines(ProcessLine(st, lines[i], base + i, p, m),
                    lines, i + 1, base, p, m)

\* transform(chunk, controller) as a function of the closure state
\* (index.js 111-214): decode, append to the buffer, keep the last piece as
\* the new buffer, process the complete lines in order.
TransformResult(st, buf, base, chunk, p, m) ==
  LET text == TextDecode(chunk)
      lines == Split(buf \o text)
      complete == SubSeq(lines, 1, Len(lines) - 1)
  IN [st |-> ProcessLines(st, complete, 1, base, p, m),
      buffer |-> lines[Len(lines)],
      n |-> base + Len(complete)]

ClosureState ==
  [inputTokens |-> inputTokens, outputTokens |-> outputTokens,
   out |-> enqueued]

\* transform(chunk, controller)
transform(chunk) ==
  LET r == TransformResult(ClosureState, buffer, linesSeen, chunk,
                           channel.provider, model.model_id)
  IN /\ buffer' = r.buffer
     /\ inputTokens' = r.st.inputTokens
     /\ outputTokens' = r.st.outputTokens
     /\ enqueued' = r.st.out
     /\ linesSeen' = r.n
     /\ UNCHANGED <<channel, model, finalUsage>>

NoUsage == [set |-> FALSE, inputTokens |-> 0, outputTokens |-> 0]

\* flush(controller) (index.js 216-219)
flush ==
  /\ finalUsage' = [set |-> TRUE, inputTokens |-> inputTokens,
                    outputTokens |-> outputTokens]
  /\ UNCHANGED <<channel, model, inputTokens, outputTokens, buffer, enqueued,
                 linesSeen>>

\* ------------------------------------------------------- the KV records
\* model:{model_id} records as setModel stores them (oauth.js 472-478,
\* part_001 60-69): prices per 1000 tokens
Models ==
  ("gpt-4o" :>
     [model_id |-> "gpt-4o", channel_id |-> "ca",
      upstream_model |-> "claude-upstream",
      input_price |-> 5, output_price |-> 15, enabled |-> TRUE]) @@
  [claude |->
     [model_id |-> "claude", channel_id |-> "ca", upstream_model |-> "claude",
      input_price |-> 5, output_price |-> 15, enabled |-> TRUE],
   gpt4o |->
     [model_id |-> "gpt4o", channel_id |-> "co",
      upstream_model |-> UpstreamName,
      input_price |-> 5, output_price |-> 15, enabled |-> TRUE],
   gemini |->
     [model_id |-> "gemini", channel_id |-> "cg", upstream_model |-> "gemini",
      input_price |-> 3, output_price |-> 10, enabled |-> TRUE],
   off |->
     [model_id |-> "off", channel_id |-> "co", upstream_model |-> "off",
      input_price |-> 5, output_price |-> 15, enabled |-> FALSE],
   orphan |->
     [model_id |-> "orphan", channel_id |-> "gone",
      upstream_model |-> "orphan",
      input_price |-> 5, output_price |-> 15, enabled |-> TRUE],
   chdis |->
     [model_id |-> "chdis", channel_id |-> "cd", upstream_model |-> "chdis",
      input_price |-> 5, output_price |-> 15, enabled |-> TRUE]]

\* channel:{channel_id} records
Channels ==
  [ca |-> [channel_id |-> "ca", provider |-> ANTHROPIC, enabled |-> TRUE],
   co |-> [channel_id |-> "co", provider |-> OPENAI, enabled |-> TRUE],
   cg |-> [channel_id |-> "cg", provider |-> GEMINI, enabled |-> TRUE],
   cd |-> [channel_id |-> "cd", provider |-> OPENAI, enabled |-> FALSE]]

NoModel == [model_id |-> "none", channel_id |-> "none",
            upstream_model |-> "none", input_price |-> 0, output_price |-> 0,
            enabled |-> FALSE]
NoChannel == [channel_id |-> "none", provider |-> "none", enabled |-> FALSE]

\* ------------------------------------------------ the vendor byte stream
\* The event texts a vendor sends
Texts == {<<>>, <<"a">>, <<"L", "C">>}

HeadsOf(p) ==
  IF p = ANTHROPIC THEN AnthropicHeads
  ELSE IF p = GEMINI THEN GeminiHeads ELSE OpenAIHeads

\* heads whose JSON carries a text field
TextHeads == {"cbd", "g", "g_stop", "g_use", "o"}

\* The lines a vendor of type p sends: events, the terminal marker (with and
\* without a carriage return), an empty line, an `event:` line and a
\* truncated event
LinesOf(p) ==
  {<<"D", h>> \o t \o <<"}">> : h \in HeadsOf(p) \cap TextHeads, t \in Texts}
  \cup {<<"D", h, "}">> : h \in HeadsOf(p) \ TextHeads}
  \cup {<<"D", "Z">>, <<"D", "Z", "CR">>, <<>>, <<"E">>, <<"D", "cbd", "a">>}

\* lines joined by newlines, the last one with or without its newline
RECURSIVE Join(_)
Join(ls) ==
  IF ls = <<>> THEN <<>>
  ELSE IF Len(ls) = 1 THEN ls[1]
  ELSE ls[1] \o <<"NL">> \o Join(Tail(ls))

StreamsOf(p) ==
  UNION {{Join(ls), Join(ls) \o <<"NL">>} :
           ls \in UNION {[1..n -> LinesOf(p)] : n \in 1..MaxLines}}

\* A Gemini stream of two content events "Hel" and "lo" and a finish event
\* with finishReason STOP, no text and no usage block
HelLoStream ==
  Join(<<<<"D", "g", "H", "e", "l", "}">>, <<"D", "g", "l", "o", "}">>,
         <<"D", "g_stop", "}">>>>) \o <<"NL">>

\* A stream of a content event "a" (after a message start with 7 input
\* tokens on an Anthropic channel) and then an event whose usage block
\* reports 0 input and 0 output tokens
ZeroUsageStream(p) ==
  IF p = ANTHROPIC
  THEN Join(<<<<"D", "ms", "}">>, <<"D", "cbd", "a", "}">>,
              <<"D", "md_zero", "}">>>>) \o <<"NL">>
  ELSE IF p = GEMINI
  THEN Join(<<<<"D", "g", "a", "}">>, <<"D", "g_zero", "}">>>>) \o <<"NL">>
  ELSE Join(<<<<"D", "o", "a", "}">>, <<"D", "o_zero", "}">>>>) \o <<"NL">>

ScenarioStreams(p) ==
  (IF p = GEMINI THEN {HelLoStream} ELSE {}) \cup {ZeroUsageStream(p)}

ModelOfProvider(p) ==
  IF p = ANTHROPIC THEN Models.claude
  ELSE IF p = GEMINI THEN Models.gemini ELSE Models.gpt4o

\* ---------------------------------------------------------- initial values
NoSettlement == [pc |-> "none", async |-> FALSE, cost |-> 0,
                 inputTokens |-> 0, outputTokens |-> 0]
NoUser == [uid |-> "none", balance |-> 0, total_consumed |-> 0,
           is_blocked |-> FALSE]
NoBody == [json |-> FALSE, model |-> "", messages |-> <<>>, stream |-> FALSE]
\* shape is the shape of the body's content (Anthropic) or parts (Gemini):
\* a list of text blocks, missing, not a list, a list with a null element,
\* or (Gemini) no candidate at all
NoResponse == [ok |-> FALSE, json |-> FALSE, content |-> <<>>,
               stop |-> "none", hasUsage |-> FALSE, usage_input |-> 0,
               usage_output |-> 0, model |-> "none", shape |-> "list"]
NoError == [message |-> "", code |-> ""]
\* finish_reason "none" stands for null or absent; threw for a conversion
\* that threw instead of returning
NoResult == [model |-> "none", content |-> <<>>, finish_reason |-> "none",
             hasUsage |-> FALSE, prompt_tokens |-> 0, completion_tokens |-> 0,
             threw |-> FALSE]

\* createStreamTransformer(channel, model): the closure's initial values
\* (index.js 105-108)
createStreamTransformer(ch, m) ==
  /\ channel' = ch
  /\ model' = m
  /\ inputTokens' = 0
  /\ outputTokens' = 0
  /\ buffer' = <<>>
  /\ enqueued' = <<>>
  /\ finalUsage' = NoUsage
  /\ linesSeen' = 0

NoAnswer ==
  /\ user = NoUser
  /\ body = NoBody
  /\ estimatedInputTokens = 0
  /\ estimatedCost = 0
  /\ response = NoResponse
  /\ result = NoResult
  /\ status = 0
  /\ error = NoError
  /\ settlement = NoSettlement
  /\ fed = <<>>
  /\ nreq = 0
  /\ calls = <<>>

NoRequest ==
  /\ token = "none"
  /\ NoAnswer

\* no model listed and no order or payment call
NoListing == [status |-> 0, data |-> <<>>]

\* no config:{key} record stored (oauth.js 546-548 reads null)
NoConfig == [oauth |-> FALSE, jwt_secret |-> "none", admin_list |-> {}]

\* no token: a request without cookie and bearer token, an answer without
\* Set-Cookie
NoToken == [uid |-> "none", sid |-> 0, secret |-> "none", exp |-> 0]

\* no answer given yet: the handler that answered, its status, what its
\* body shows, the cookie it set, the ctx.user and ctx.session.sid it ran
\* with, and the code, state, token and route of its request
NoReply == [handler |-> "none", status |-> 0, body |-> "none",
            cookie |-> NoToken, user |-> "none", sid |-> 0,
            code |-> FALSE, state |-> "none", tok |-> NoToken,
            route |-> "none"]

NoAuth ==
  /\ now = 0
  /\ envAdminList = {}
  /\ kvConfig = NoConfig
  /\ kvStates = {}
  /\ kvSessions = <<>>
  /\ kvChannels = {}
  /\ jar = <<>>
  /\ reply = NoReply

NoSide ==
  /\ kvModels = <<>>
  /\ listing = NoListing
  /\ kvOrders = <<>>
  /\ tasks = <<>>
  /\ NoAuth

NoLedger ==
  /\ kvUsers = [u \in {"u1", "u2"} |->
                  [uid |-> u, balance |-> 0, total_consumed |-> 0,
                   is_blocked |-> (u = "u2")]]
  /\ kvUsage = [u \in {"u1", "u2"} |->
                  [total |-> [requests |-> 0, input_tokens |-> 0,
                              output_tokens |-> 0, cost |-> 0],
                   models |-> [m \in {} |-> 0]]]
  /\ hasWaitUntil = TRUE

NoStore ==
  /\ NoSide
  /\ NoLedger

\* ------------------------------------------- the transformer on its own
\* A transformer created for a channel of each vendor type, fed a vendor
\* byte stream in chunks cut at any byte.
StreamInit ==
  /\ \E p \in ProviderType :
       /\ channel = CHOOSE c \in {Channels[k] : k \in DOMAIN Channels} :
                       c.provider = p /\ c.enabled
       /\ model = ModelOfProvider(p)
       /\ whole \in StreamsOf(p) \cup ScenarioStreams(p)
  /\ upstream = whole
  /\ closed = FALSE
  /\ inputTokens = 0
  /\ outputTokens = 0
  /\ buffer = <<>>
  /\ enqueued = <<>>
  /\ finalUsage = NoUsage
  /\ linesSeen = 0
  /\ pc = "off"
  /\ NoRequest
  /\ NoStore

\* The runtime hands the next k bytes of the vendor body to transform
Feed ==
  /\ pc = "off"
  /\ ~closed
  /\ \E k \in 1..Len(upstream) :
       /\ transform(SubSeq(upstream, 1, k))
       /\ upstream' = SubSeq(upstream, k + 1, Len(upstream))
  /\ UNCHANGED <<whole, closed, kvVars, listVars, payVars, authVars, reqVars, callVars>>

\* The vendor body has ended: the runtime calls flush and closes the output
Close ==
  /\ pc = "off"
  /\ ~closed
  /\ upstream = <<>>
  /\ flush
  /\ closed' = TRUE
  /\ UNCHANGED <<whole, upstream, kvVars, listVars, payVars, authVars, reqVars, callVars>>

StreamNext == Feed \/ Close

SpecStream == StreamInit /\ [][StreamNext]_vars

\* ------------------------------------------------------------ the ledger
Uids == {"u1", "u2"}

\* apikey:{key} records
ApiKeys ==
  [k1 |-> [uid |-> "u1", enabled |-> TRUE],
   koff |-> [uid |-> "u1", enabled |-> FALSE],
   kblk |-> [uid |-> "u2", enabled |-> TRUE]]

\* what extractBearerToken can return: nothing, an unknown key, a stored key
Tokens == {"none", "bad"} \cup DOMAIN ApiKeys

\* updateBalance(uid, delta) (oauth.js 186-204) on the user records: the new
\* records, or threw when the user is missing or the result is negative
\* updateBalance without the check of the new balance
updateBalance_Unchecked(users, uid, delta) ==
  IF uid \notin DOMAIN users THEN [threw |-> TRUE, users |-> users]
  ELSE [threw |-> FALSE,
        users |-> [users EXCEPT ![uid] =
           [@ EXCEPT !.balance = @ + delta,
                     !.total_consumed = IF delta < 0 THEN @ - delta ELSE @]]]

updateBalance(users, uid, delta) ==
  IF uid \notin DOMAIN users THEN [threw |-> TRUE, users |-> users]
  ELSE LET u == users[uid]
           newBalance == u.balance + delta
       IN IF newBalance < 0 THEN [threw |-> TRUE, users |-> users]
          ELSE [threw |-> FALSE,
                users |-> [users EXCEPT ![uid] =
                   [u EXCEPT !.balance = newBalance,
                             !.total_consumed =
                                IF delta < 0 THEN @ - delta ELSE @]]]

ZeroStats == [requests |-> 0, input_tokens |-> 0, output_tokens |-> 0,
              cost |-> 0]

AddStats(st, i, o, c) ==
  [requests |-> st.requests + 1, input_tokens |-> st.input_tokens + i,
   output_tokens |-> st.output_tokens + o, cost |-> st.cost + c]

\* the usage:{uid}:{day} record before its first recordUsage: no requests,
\* no model entries
ZeroUsage == [total |-> ZeroStats, models |-> [m \in {} |-> ZeroStats]]

\* recordUsage as it would be if it counted the call into the day's totals and
\* started the model's entry afresh at every call
recordUsage_FreshEntry(usage, uid, modelId, i, o, c) ==
  LET existing == usage[uid]
  IN [usage EXCEPT ![uid] =
        [total |-> AddStats(existing.total, i, o, c),
         models |-> (modelId :> AddStats(ZeroStats, i, o, c)) @@
                    existing.models]]

\* recordUsage(uid, modelId, inputTokens, outputTokens, cost)
\* (oauth.js 404-437) on the usage records of one day
recordUsage(usage, uid, modelId, i, o, c) ==
  LET existing == usage[uid]
      entry == IF modelId \in DOMAIN existing.models
               THEN existing.models[modelId] ELSE ZeroStats
  IN [usage EXCEPT ![uid] =
        [total |-> AddStats(existing.total, i, o, c),
         models |-> (modelId :> AddStats(entry, i, o, c)) @@ existing.models]]

\* --------------------------------------------------------- the estimator
\* estimateTokens(text) (adapter.js 245-251): Math.ceil(cjk / 1.5 + other / 4),
\* which is the ceiling of (8 cjk + 3 other) / 12
estimateTokens(text) ==
  LET chineseChars == Cardinality({k \in 1..Len(text) : text[k] = "Han"})
      otherChars == Len(text) - chineseChars
  IN IF text = <<>> THEN 0
     ELSE CeilDiv(8 * chineseChars + 3 * otherChars, 12)

\* the inner loop of estimateInputTokens over the parts of an array content
\* (adapter.js 265-269)
RECURSIVE SumParts(_)
SumParts(parts) ==
  IF parts = <<>> THEN 0
  ELSE (IF Head(parts).type = "text" THEN estimateTokens(Head(parts).text)
        ELSE 0) + SumParts(Tail(parts))

\* the loop of estimateInputTokens over body.messages (adapter.js 260-272):
\* a message's content is a string (kind "string") or an array of parts
\* (kind "array")
RECURSIVE SumTokens(_)
SumTokens(msgs) ==
  IF msgs = <<>> THEN 0
  ELSE (IF Head(msgs).kind = "string" THEN estimateTokens(Head(msgs).content)
        ELSE IF Head(msgs).kind = "array" THEN SumParts(Head(msgs).content)
        ELSE 0) + SumTokens(Tail(msgs))

\* estimateInputTokens(body) (adapter.js 256-286); a chat request has no
\* body.contents
estimateInputTokens(b) == SumTokens(b.messages)

\* calculateCost(model, inputTokens, outputTokens) (index.js 64-68), in
\* thousandths
calculateCost(m, i, o) == i * m.input_price + o * m.output_price

\* the placeholder output lengths of the admission check and of the stream
\* settlement
AdmissionOutputTokens == 100
estimatedOutputTokens == 500

\* ------------------------------------------------------ authentication
\* validateApiKey(key) (oauth.js 279-296); last_used, a clock reading, is
\* not kept
validateApiKey(key) ==
  IF key \notin DOMAIN ApiKeys THEN [ok |-> FALSE, user |-> NoUser]
  ELSE IF ~ApiKeys[key].enabled THEN [ok |-> FALSE, user |-> NoUser]
  ELSE IF ApiKeys[key].uid \notin DOMAIN kvUsers
       THEN [ok |-> FALSE, user |-> NoUser]
  ELSE IF kvUsers[ApiKeys[key].uid].is_blocked
       THEN [ok |-> FALSE, user |-> NoUser]
  ELSE [ok |-> TRUE, user |-> kvUsers[ApiKeys[key].uid]]

\* authenticateRequest(request, env) (index.js 23-41): the error status, or 0
\* and the user
authenticateRequest(tok) ==
  IF tok = "none" THEN [error |-> 401, user |-> NoUser]
  ELSE LET r == validateApiKey(tok)
       IN IF ~r.ok THEN [error |-> 401, user |-> NoUser]
          ELSE IF r.user.is_blocked THEN [error |-> 403, user |-> NoUser]
          ELSE [error |-> 0, user |-> r.user]

\* getModelConfig without the check of the channel's enabled flag
getModelConfig_IgnoresChannelFlag(modelId) ==
  IF modelId \notin DOMAIN Models
  THEN [ok |-> FALSE, model |-> NoModel, channel |-> NoChannel]
  ELSE IF ~Models[modelId].enabled
  THEN [ok |-> FALSE, model |-> NoModel, channel |-> NoChannel]
  ELSE IF Models[modelId].channel_id \notin DOMAIN Channels
  THEN [ok |-> FALSE, model |-> NoModel, channel |-> NoChannel]
  ELSE [ok |-> TRUE, model |-> Models[modelId],
        channel |-> Channels[Models[modelId].channel_id]]

\* getModelConfig(kv, modelId) (index.js 46-59)
getModelConfig(modelId) ==
  IF modelId \notin DOMAIN Models
  THEN [ok |-> FALSE, model |-> NoModel, channel |-> NoChannel]
  ELSE IF ~Models[modelId].enabled
  THEN [ok |-> FALSE, model |-> NoModel, channel |-> NoChannel]
  ELSE IF Models[modelId].channel_id \notin DOMAIN Channels
  THEN [ok |-> FALSE, model |-> NoModel, channel |-> NoChannel]
  ELSE IF ~Channels[Models[modelId].channel_id].enabled
  THEN [ok |-> FALSE, model |-> NoModel, channel |-> NoChannel]
  ELSE [ok |-> TRUE, model |-> Models[modelId],
        channel |-> Channels[Models[modelId].channel_id]]

\* ------------------------------------------------------------- requests
MessageLists ==
  {<<[role |-> "user", kind |-> "string", content |-> <<"a", "a", "a", "a">>]>>,
   <<[role |-> "system", kind |-> "string", content |-> <<"a">>],
     [role |-> "user", kind |-> "string", content |-> <<"a", "a", "Han">>]>>}

\* the request bodies a client sends: not JSON, or a chat request whose model
\* is a stored identifier, an unknown one or missing
RequestBodies ==
  {NoBody} \cup
  [json : {TRUE}, model : DOMAIN Models \cup {"nope", ""},
   messages : MessageLists, stream : BOOLEAN]

\* ------------------------------------------------------ vendor responses
\* The bodies a vendor of type p answers a non-stream request with: usage
\* reported, usage missing, a long completion, and a body that is not JSON
VendorStops(p) ==
  IF p = ANTHROPIC THEN <<"end_turn", "max_tokens">>
  ELSE IF p = GEMINI THEN <<"STOP", "MAX_TOKENS">>
  ELSE <<"stop", "length">>

\* the completion text "Hi there!"
HiThere == <<"H", "i", " ", "t", "h", "e", "r", "e", "!">>

VendorResponses(p, upstreamModel) ==
  LET base == [NoResponse EXCEPT !.ok = TRUE, !.json = TRUE,
                                 !.content = <<"a">>,
                                 !.model = upstreamModel]
  IN {[base EXCEPT !.content = HiThere,
                   !.stop = VendorStops(p)[1], !.hasUsage = TRUE,
                   !.usage_input = 5, !.usage_output = 3],
      [base EXCEPT !.stop = VendorStops(p)[1]],
      [base EXCEPT !.stop = VendorStops(p)[2], !.hasUsage = TRUE,
                   !.usage_input = 5, !.usage_output = 600],
      [base EXCEPT !.content = <<>>, !.shape = "nullElement"],
      [NoResponse EXCEPT !.ok = TRUE]}

\* the opened body of a stream request
StreamResponse == [NoResponse EXCEPT !.ok = TRUE]

\* String.prototype.toLowerCase on the Gemini finish reasons
ToLowerCase(x) ==
  CASE x = "MAX_TOKENS" -> "max_tokens"
    [] x = "SAFETY" -> "safety"
    [] x = "STOP" -> "stop"
    [] OTHER -> x

\* what a conversion that threw leaves behind
Threw == [NoResult EXCEPT !.threw = TRUE]

\* anthropicToOpenAI keeping the vendor's stop reason for end_turn too
anthropicToOpenAI_KeepsStopReason(r) ==
  IF r.shape \in {"notList", "nullElement"} THEN Threw
  ELSE [model |-> r.model,
        content |-> IF r.shape = "list" THEN r.content ELSE <<>>,
        finish_reason |-> r.stop,
        hasUsage |-> TRUE,
        prompt_tokens |-> IF r.hasUsage THEN r.usage_input ELSE 0,
        completion_tokens |-> IF r.hasUsage THEN r.usage_output ELSE 0,
        threw |-> FALSE]

\* anthropicToOpenAI(response) (adapter.js 117-139):
\* response.content?.map(c => c.text).join('') || '' is '' for a missing
\* content and throws for a content without map or with a null element
anthropicToOpenAI(r) ==
  IF r.shape \in {"notList", "nullElement"} THEN Threw
  ELSE [model |-> r.model,
        content |-> IF r.shape = "list" THEN r.content ELSE <<>>,
        finish_reason |-> IF r.stop = "end_turn" THEN "stop" ELSE r.stop,
        hasUsage |-> TRUE,
        prompt_tokens |-> IF r.hasUsage THEN r.usage_input ELSE 0,
        completion_tokens |-> IF r.hasUsage THEN r.usage_output ELSE 0,
        threw |-> FALSE]

\* geminiToOpenAI(response) (adapter.js 144-167): candidates?.[0] is
\* undefined for no candidate; parts?.map(p => p.text) throws for parts
\* without map or with a null element
geminiToOpenAI(r) ==
  IF r.shape \in {"notList", "nullElement"} THEN Threw
  ELSE [model |-> IF r.model # "none" THEN r.model ELSE "gemini",
        content |-> IF r.shape = "list" THEN r.content ELSE <<>>,
        finish_reason |->
           IF r.shape = "emptyCandidates" THEN "none"
           ELSE IF r.stop = "STOP" THEN "stop" ELSE ToLowerCase(r.stop),
        hasUsage |-> TRUE,
        prompt_tokens |-> IF r.hasUsage THEN r.usage_input ELSE 0,
        completion_tokens |-> IF r.hasUsage THEN r.usage_output ELSE 0,
        threw |-> FALSE]

\* an OpenAI body is already canonical
fromOpenAI(r) ==
  [model |-> r.model, content |-> r.content, finish_reason |-> r.stop,
   hasUsage |-> r.hasUsage, prompt_tokens |-> r.usage_input,
   completion_tokens |-> r.usage_output, threw |-> FALSE]

\* index.js 329-337: convert by vendor type, then result.model = modelId
CanonicalResult(p, r, modelId) ==
  LET converted == IF p = ANTHROPIC THEN anthropicToOpenAI(r)
                   ELSE IF p = GEMINI THEN geminiToOpenAI(r)
                   ELSE fromOpenAI(r)
  IN [converted EXCEPT !.model = modelId]

\* ------------------------------------------------- outbound translation
\* The body sent to the vendor: its format, model, system slot (system for
\* Anthropic, systemInstruction for Gemini) and turn list (messages or
\* contents).  A string is a sequence of characters, "NL" the newline.
NoUpstreamBody ==
  [format |-> "none", model |-> "none", hasSystem |-> FALSE, system |-> <<>>,
   messages |-> <<>>, stream |-> FALSE]

\* the loop of toAnthropic and toGemini over body.messages
\* (adapter.js 60-69, 90-99): system contents are appended to one string,
\* with a newline in between once the string is not empty; the other
\* messages are pushed with the role assistant (as the vendor spells it) or
\* user
RECURSIVE TranslateMessages(_, _, _)
TranslateMessages(msgs, acc, assistantRole) ==
  IF msgs = <<>> THEN acc
  ELSE LET msg == Head(msgs)
       IN TranslateMessages(
            Tail(msgs),
            IF msg.role = "system"
            THEN [acc EXCEPT !.system =
                    @ \o (IF @ # <<>> THEN <<"NL">> ELSE <<>>) \o msg.content]
            ELSE [acc EXCEPT !.messages =
                    Append(@, [role |-> IF msg.role = "assistant"
                                        THEN assistantRole ELSE "user",
                               content |-> msg.content])],
            assistantRole)

\* OpenAIAdapter.toAnthropic(body) (adapter.js 56-81): system || undefined
toAnthropic(b) ==
  LET r == TranslateMessages(b.messages, [system |-> <<>>, messages |-> <<>>],
                             "assistant")
  IN [format |-> ANTHROPIC, model |-> b.model, hasSystem |-> r.system # <<>>,
      system |-> r.system, messages |-> r.messages, stream |-> b.stream]

\* OpenAIAdapter.toGemini(body) (adapter.js 86-111)
toGemini(b) ==
  LET r == TranslateMessages(b.messages, [system |-> <<>>, messages |-> <<>>],
                             "model")
  IN [format |-> GEMINI, model |-> "none", hasSystem |-> r.system # <<>>,
      system |-> r.system, messages |-> r.messages, stream |-> FALSE]

\* ----------------------------------------------- handleChatCompletions
Call(op) ==
  [op |-> op, uid |-> "none", model |-> "none", inputTokens |-> 0,
   outputTokens |-> 0, amount |-> 0, threw |-> FALSE,
   request |-> NoUpstreamBody]

\* the message of the error answered with each status (index.js 25-36, 238,
\* 243, 252, 263, 356)
MessageOf(code) ==
  CASE code = 400 -> "bad request"
    [] code = 401 -> "invalid api key"
    [] code = 402 -> "insufficient balance"
    [] code = 403 -> "blocked"
    [] code = 404 -> "model unavailable"
    [] OTHER -> "upstream error"

\* errorResponse(message, status = 400, code = 'error') (part_002 295-297)
errorResponse(message, st, code) ==
  [status |-> st, error |-> [message |-> message, code |-> code]]

\* return errorResponse(message, status): no call site passes a code
Fail(code) ==
  /\ pc' = "failed"
  /\ status' = errorResponse(MessageOf(code), code, "error").status
  /\ error' = errorResponse(MessageOf(code), code, "error").error

\* A request arrives once the previous one and its settlement have ended
Receive ==
  /\ pc \in {"idle", "done", "failed"}
  /\ settlement.pc \in {"none", "done", "failed"}
  /\ nreq < MaxRequests
  /\ nreq' = nreq + 1
  /\ pc' = "received"
  /\ token' \in Tokens
  /\ user' = NoUser
  /\ body' = NoBody
  /\ estimatedInputTokens' = 0
  /\ estimatedCost' = 0
  /\ response' = NoResponse
  /\ result' = NoResult
  /\ status' = 0
  /\ error' = NoError
  /\ settlement' = NoSettlement
  /\ fed' = <<>>
  /\ calls' = <<>>
  /\ createStreamTransformer(NoChannel, NoModel)
  /\ closed' = FALSE
  /\ UNCHANGED <<whole, upstream, kvVars, listVars, payVars, authVars>>

\* index.js 228-231
Authenticate ==
  /\ pc = "received"
  /\ LET auth == authenticateRequest(token)
     IN IF auth.error # 0
        THEN Fail(auth.error) /\ UNCHANGED user
        ELSE /\ pc' = "authenticated"
             /\ user' = auth.user
             /\ UNCHANGED <<status, error>>
  /\ UNCHANGED <<xfVars, streamVars, kvVars, listVars, payVars, authVars, token, body,
                 estimatedInputTokens, estimatedCost, response, result,
                 settlement, fed, nreq, calls>>

\* index.js 233-244: request.json() and the model parameter
ParseBody ==
  /\ pc = "authenticated"
  /\ \E b \in RequestBodies :
       IF ~b.json \/ b.model = ""
       THEN Fail(400) /\ UNCHANGED body
       ELSE /\ pc' = "parsed"
            /\ body' = b
            /\ UNCHANGED <<status, error>>
  /\ UNCHANGED <<xfVars, streamVars, kvVars, listVars, payVars, authVars, token, user,
                 estimatedInputTokens, estimatedCost, response, result,
                 settlement, fed, nreq, calls>>

\* index.js 249-255
ResolveModel ==
  /\ pc = "parsed"
  /\ LET config == getModelConfig(body.model)
     IN IF ~config.ok
        THEN Fail(404) /\ UNCHANGED <<channel, model>>
        ELSE /\ pc' = "resolved"
             /\ model' = config.model
             /\ channel' = config.channel
             /\ UNCHANGED <<status, error>>
  /\ UNCHANGED <<inputTokens, outputTokens, buffer, enqueued, finalUsage,
                 linesSeen, streamVars, kvVars, listVars, payVars, authVars, token, user, body,
                 estimatedInputTokens, estimatedCost, response, result,
                 settlement, fed, nreq, calls>>

\* AdmissionCheck rejecting a balance equal to the estimate
AdmissionCheck_RejectsEqual ==
  /\ pc = "resolved"
  /\ estimatedInputTokens' = estimateInputTokens(body)
  /\ estimatedCost' = calculateCost(model, estimatedInputTokens',
                                    AdmissionOutputTokens)
  /\ IF user.balance <= estimatedCost'
     THEN Fail(402)
     ELSE pc' = "admitted" /\ UNCHANGED <<status, error>>
  /\ UNCHANGED <<xfVars, streamVars, kvVars, listVars, payVars, authVars, token, user, body, response,
                 result, settlement, fed, nreq, calls>>

\* index.js 257-264
AdmissionCheck ==
  /\ pc = "resolved"
  /\ estimatedInputTokens' = estimateInputTokens(body)
  /\ estimatedCost' = calculateCost(model, estimatedInputTokens',
                                    AdmissionOutputTokens)
  /\ IF user.balance < estimatedCost'
     THEN Fail(402)
     ELSE pc' = "admitted" /\ UNCHANGED <<status, error>>
  /\ UNCHANGED <<xfVars, streamVars, kvVars, listVars, payVars, authVars, token, user, body, response,
                 result, settlement, fed, nreq, calls>>

\* index.js 271: model.upstream_model || modelId
upstreamModel == IF model.upstream_model # "none"
                 THEN model.upstream_model ELSE body.model

\* index.js 270-280: the body sent upstream, by vendor type; the OpenAI
\* body is the request's own with the model replaced
upstreamBody ==
  IF channel.provider = ANTHROPIC
  THEN [toAnthropic(body) EXCEPT !.model = upstreamModel]
  ELSE IF channel.provider = GEMINI THEN toGemini(body)
  ELSE [format |-> OPENAI, model |-> upstreamModel, hasSystem |-> FALSE,
        system |-> <<>>, messages |-> body.messages, stream |-> body.stream]

\* the call of the provider for the request in flight; threw when the vendor
\* answered non-2xx or the transport failed
DispatchCall(failed) ==
  [Call("dispatch") EXCEPT !.model = upstreamModel, !.request = upstreamBody,
                           !.threw = failed]

\* Dispatch without the providers' check of response.ok: a failed answer is
\* handed on as the response
Dispatch_IgnoresStatus ==
  /\ pc = "admitted"
  /\ pc' = "dispatched"
  /\ \/ /\ calls' = Append(calls, DispatchCall(TRUE))
        /\ response' = NoResponse
     \/ /\ calls' = Append(calls, DispatchCall(FALSE))
        /\ response' \in IF body.stream THEN {StreamResponse}
                         ELSE VendorResponses(channel.provider, upstreamModel)
  /\ UNCHANGED <<xfVars, streamVars, kvVars, listVars, payVars, authVars, token, user, body,
                 estimatedInputTokens, estimatedCost, result, settlement,
                 fed, nreq, status, error>>

\* Dispatch that calls the vendor again after a failure
Dispatch_Retries ==
  /\ pc = "admitted"
  /\ Len(calls) < 3
  /\ \/ /\ calls' = Append(calls, DispatchCall(TRUE))
        /\ UNCHANGED <<pc, status, error, response>>
     \/ /\ calls' = Append(calls, DispatchCall(FALSE))
        /\ pc' = "dispatched"
        /\ response' \in IF body.stream THEN {StreamResponse}
                         ELSE VendorResponses(channel.provider, upstreamModel)
        /\ UNCHANGED <<status, error>>
  /\ UNCHANGED <<xfVars, streamVars, kvVars, listVars, payVars, authVars, token, user, body,
                 estimatedInputTokens, estimatedCost, result, settlement,
                 fed, nreq>>

\* Dispatch answering a vendor failure with the vendor's own status
Dispatch_SurfacesVendorStatus ==
  /\ pc = "admitted"
  /\ \/ /\ calls' = Append(calls, DispatchCall(TRUE))
        /\ Fail(429)
        /\ UNCHANGED response
     \/ /\ calls' = Append(calls, DispatchCall(FALSE))
        /\ pc' = "dispatched"
        /\ response' \in IF body.stream THEN {StreamResponse}
                         ELSE VendorResponses(channel.provider, upstreamModel)
        /\ UNCHANGED <<status, error>>
  /\ UNCHANGED <<xfVars, streamVars, kvVars, listVars, payVars, authVars, token, user, body,
                 estimatedInputTokens, estimatedCost, result, settlement,
                 fed, nreq>>

\* index.js 284-293 with the provider's fetch (openai.js 15-37,
\* anthropic.js 16-39, gemini.js 15-34): one call; a non-2xx answer or a
\* transport failure throws and the catch answers 502
Dispatch ==
  /\ pc = "admitted"
  /\ \/ /\ calls' = Append(calls, DispatchCall(TRUE))
        /\ Fail(502)
        /\ UNCHANGED response
     \/ /\ calls' = Append(calls, DispatchCall(FALSE))
        /\ pc' = "dispatched"
        /\ response' \in IF body.stream THEN {StreamResponse}
                         ELSE VendorResponses(channel.provider, upstreamModel)
        /\ UNCHANGED <<status, error>>
  /\ UNCHANGED <<xfVars, streamVars, kvVars, listVars, payVars, authVars, token, user, body,
                 estimatedInputTokens, estimatedCost, result, settlement,
                 fed, nreq>>

\* OpenStream settling with the admission placeholder instead of 500
OpenStream_AdmissionPlaceholder ==
  /\ pc = "dispatched"
  /\ body.stream
  /\ createStreamTransformer(channel, model)
  /\ settlement' =
       IF hasWaitUntil
       THEN [pc |-> "updateBalance", async |-> TRUE,
             cost |-> calculateCost(model, estimatedInputTokens,
                                    AdmissionOutputTokens),
             inputTokens |-> estimatedInputTokens,
             outputTokens |-> AdmissionOutputTokens]
       ELSE NoSettlement
  /\ status' = 200
  /\ UNCHANGED error
  /\ pc' = "streaming"
  /\ UNCHANGED <<streamVars, kvVars, listVars, payVars, authVars, token, user, body,
                 estimatedInputTokens, estimatedCost, response, result, fed,
                 nreq, calls>>

\* index.js 295-324: the transformer, the cost of the placeholder usage, the
\* settlement handed to env.waitUntil?.(...), whose argument is evaluated
\* only when the hook is present, and the Response
OpenStream ==
  /\ pc = "dispatched"
  /\ body.stream
  /\ createStreamTransformer(channel, model)
  /\ settlement' =
       IF hasWaitUntil
       THEN [pc |-> "updateBalance", async |-> TRUE,
             cost |-> calculateCost(model, estimatedInputTokens,
                                    estimatedOutputTokens),
             inputTokens |-> estimatedInputTokens,
             outputTokens |-> estimatedOutputTokens]
       ELSE NoSettlement
  /\ status' = 200
  /\ UNCHANGED error
  /\ pc' = "streaming"
  /\ UNCHANGED <<streamVars, kvVars, listVars, payVars, authVars, token, user, body,
                 estimatedInputTokens, estimatedCost, response, result, fed,
                 nreq, calls>>

\* the lines a vendor stream carries while a request is served
RequestLines(p) ==
  {<<"D", h, "a", "}">> : h \in HeadsOf(p) \cap TextHeads}
  \cup {<<"D", h, "}">> : h \in HeadsOf(p) \ TextHeads}
  \cup {<<"D", "Z">>}

\* the stream delivers one more line to the transformer
StreamChunk ==
  /\ pc = "streaming"
  /\ Len(fed) < MaxEvents
  /\ \E line \in RequestLines(channel.provider) :
       /\ transform(line \o <<"NL">>)
       /\ fed' = Append(fed, line)
  /\ UNCHANGED <<streamVars, kvVars, listVars, payVars, authVars, pc, token, user, body,
                 estimatedInputTokens, estimatedCost, response, result,
                 status, error, settlement, nreq, calls>>

\* the vendor stream ends
StreamEnd ==
  /\ pc = "streaming"
  /\ flush
  /\ closed' = TRUE
  /\ pc' = "done"
  /\ UNCHANGED <<whole, upstream, kvVars, listVars, payVars, authVars, token, user, body,
                 estimatedInputTokens, estimatedCost, response, result,
                 status, error, settlement, fed, nreq, calls>>

\* Complete debiting the admission estimate before the vendor body is read
\* and converted
Complete_BillsBeforeConversion ==
  /\ pc = "dispatched"
  /\ ~body.stream
  /\ LET r == updateBalance(kvUsers, user.uid, 0 - estimatedCost)
     IN /\ kvUsers' = r.users
        /\ calls' = Append(calls, [Call("updateBalance") EXCEPT
                                     !.uid = user.uid,
                                     !.amount = 0 - estimatedCost,
                                     !.threw = r.threw])
  /\ IF ~response.json
        \/ CanonicalResult(channel.provider, response, body.model).threw
     THEN Fail(502) /\ UNCHANGED <<result, settlement>>
     ELSE /\ result' = CanonicalResult(channel.provider, response, body.model)
          /\ settlement' = [NoSettlement EXCEPT !.pc = "recordUsage"]
          /\ pc' = "settling"
          /\ UNCHANGED <<status, error>>
  /\ UNCHANGED <<xfVars, streamVars, kvUsage, hasWaitUntil, listVars,
                 payVars, authVars, token, user, body, estimatedInputTokens,
                 estimatedCost, response, fed, nreq>>

\* index.js 326-342: response.json(), the canonical result, the usage and
\* its cost; a body that is not JSON or a conversion that throws goes to the
\* catch, which answers 502
Complete ==
  /\ pc = "dispatched"
  /\ ~body.stream
  /\ IF ~response.json
        \/ CanonicalResult(channel.provider, response, body.model).threw
     THEN Fail(502) /\ UNCHANGED <<result, settlement>>
     ELSE LET res == CanonicalResult(channel.provider, response, body.model)
              i == OrElse(IF res.hasUsage THEN res.prompt_tokens ELSE 0,
                          estimatedInputTokens)
              o == IF res.hasUsage THEN res.completion_tokens ELSE 0
          IN /\ result' = res
             /\ settlement' = [pc |-> "updateBalance", async |-> FALSE,
                               cost |-> calculateCost(model, i, o),
                               inputTokens |-> i, outputTokens |-> o]
             /\ pc' = "settling"
             /\ UNCHANGED <<status, error>>
  /\ UNCHANGED <<xfVars, streamVars, kvVars, listVars, payVars, authVars, token, user, body,
                 estimatedInputTokens, estimatedCost, response, fed, nreq,
                 calls>>

\* the settlement runs inside the handler (non-stream) or beside the stream
SettlementRuns ==
  IF settlement.async THEN pc \in {"streaming", "done"} ELSE pc = "settling"

\* SettleUpdateBalance answering the client with an error when the debit
\* throws
SettleUpdateBalance_SurfacesFailure ==
  /\ settlement.pc = "updateBalance"
  /\ SettlementRuns
  /\ LET r == updateBalance(kvUsers, user.uid, 0 - settlement.cost)
     IN /\ kvUsers' = r.users
        /\ settlement' = [settlement EXCEPT
                            !.pc = IF r.threw THEN "failed" ELSE "recordUsage"]
        /\ calls' = Append(calls, [Call("updateBalance") EXCEPT
                                     !.uid = user.uid,
                                     !.amount = 0 - settlement.cost,
                                     !.threw = r.threw])
        /\ IF r.threw THEN Fail(500) ELSE UNCHANGED <<pc, status, error>>
  /\ UNCHANGED <<xfVars, streamVars, kvUsage, hasWaitUntil, listVars,
                 payVars, authVars, token, user,
                 body, estimatedInputTokens, estimatedCost, response, result,
                 fed, nreq>>

\* index.js 309 and 346: await kv.updateBalance(user.uid, -cost); a throw
\* goes to the catch, which logs
SettleUpdateBalance ==
  /\ settlement.pc = "updateBalance"
  /\ SettlementRuns
  /\ LET r == updateBalance(kvUsers, user.uid, 0 - settlement.cost)
     IN /\ kvUsers' = r.users
        /\ settlement' = [settlement EXCEPT
                            !.pc = IF r.threw THEN "failed" ELSE "recordUsage"]
        /\ calls' = Append(calls, [Call("updateBalance") EXCEPT
                                     !.uid = user.uid,
                                     !.amount = 0 - settlement.cost,
                                     !.threw = r.threw])
  /\ UNCHANGED <<xfVars, streamVars, kvUsage, hasWaitUntil, listVars,
                 payVars, authVars, pc, token, user,
                 body, estimatedInputTokens, estimatedCost, response, result,
                 status, error, fed, nreq>>

\* index.js 310 and 347: await kv.recordUsage(...)
SettleRecordUsage ==
  /\ settlement.pc = "recordUsage"
  /\ SettlementRuns
  /\ kvUsage' = recordUsage(kvUsage, user.uid, body.model,
                            settlement.inputTokens, settlement.outputTokens,
                            settlement.cost)
  /\ settlement' = [settlement EXCEPT !.pc = "done"]
  /\ calls' = Append(calls, [Call("recordUsage") EXCEPT
                               !.uid = user.uid,
                               !.model = body.model,
                               !.inputTokens = settlement.inputTokens,
                               !.outputTokens = settlement.outputTokens,
                               !.amount = settlement.cost])
  /\ UNCHANGED <<xfVars, streamVars, kvUsers, hasWaitUntil, listVars,
                 payVars, authVars, pc, token, user,
                 body, estimatedInputTokens, estimatedCost, response, result,
                 status, error, fed, nreq>>

\* index.js 352: return jsonResponse(result)
Respond ==
  /\ pc = "settling"
  /\ settlement.pc \in {"done", "failed"}
  /\ status' = 200
  /\ UNCHANGED error
  /\ pc' = "done"
  /\ UNCHANGED <<xfVars, streamVars, kvVars, listVars, payVars, authVars, token, user, body,
                 estimatedInputTokens, estimatedCost, response, result,
                 settlement, fed, nreq, calls>>

\* the balances a user can hold when a request arrives: one below and exactly
\* at an admission estimate, enough for a short completion, enough for a
\* stream
InitialBalances == {1504, 1505, 9000}

Init ==
  /\ kvUsers \in {[u \in Uids |->
                     [uid |-> u, balance |-> IF u = "u1" THEN b ELSE 9000,
                      total_consumed |-> 0, is_blocked |-> (u = "u2")]] :
                  b \in InitialBalances}
  /\ kvUsage = [u \in Uids |-> ZeroUsage]
  /\ hasWaitUntil \in BOOLEAN
  /\ NoSide
  /\ channel = NoChannel
  /\ model = NoModel
  /\ inputTokens = 0
  /\ outputTokens = 0
  /\ buffer = <<>>
  /\ enqueued = <<>>
  /\ finalUsage = NoUsage
  /\ linesSeen = 0
  /\ whole = <<>>
  /\ upstream = <<>>
  /\ closed = FALSE
  /\ pc = "idle"
  /\ NoRequest

Next ==
  \/ Receive
  \/ Authenticate
  \/ ParseBody
  \/ ResolveModel
  \/ AdmissionCheck
  \/ Dispatch
  \/ OpenStream
  \/ StreamChunk
  \/ StreamEnd
  \/ Complete
  \/ SettleUpdateBalance
  \/ SettleRecordUsage
  \/ Respond

Spec == Init /\ [][Next]_vars

\* ------------------------------------------------- calculateCost alone
\* the prices handleSaveModel stores (part_001 66-67):
\* parseFloat(price) || 0 of the posted price, of either sign
PostedPrices == (0 - 1)..2

PricedModels ==
  {[NoModel EXCEPT !.model_id = "priced", !.channel_id = "ca",
                   !.upstream_model = "priced", !.enabled = TRUE,
                   !.input_price = OrElse(ip, 0),
                   !.output_price = OrElse(op, 0)] :
     ip \in PostedPrices, op \in PostedPrices}

NoTransformer ==
  /\ buffer = <<>>
  /\ enqueued = <<>>
  /\ finalUsage = NoUsage
  /\ linesSeen = 0
  /\ whole = <<>>
  /\ upstream = <<>>
  /\ closed = FALSE

CostInit ==
  /\ model \in PricedModels
  /\ inputTokens \in 0..MaxTokens
  /\ outputTokens \in 0..MaxTokens
  /\ channel = NoChannel
  /\ NoTransformer
  /\ pc = "cost"
  /\ NoRequest
  /\ NoStore

\* const cost = calculateCost(model, inputTokens, outputTokens)
CalculateCost ==
  /\ pc = "cost"
  /\ estimatedCost' = calculateCost(model, inputTokens, outputTokens)
  /\ pc' = "costed"
  /\ UNCHANGED <<xfVars, streamVars, kvVars, listVars, payVars, authVars, token, user, body,
                 estimatedInputTokens, response, result, status, error,
                 settlement, fed, nreq, calls>>

SpecCost == CostInit /\ [][CalculateCost]_vars

\* --------------------------------------------- estimateInputTokens alone
\* texts of up to MaxTextLen characters, CJK ("Han") or other ("a")
RECURSIVE TextsUpTo(_)
TextsUpTo(n) ==
  IF n = 0 THEN {<<>>}
  ELSE LET shorter == TextsUpTo(n - 1)
       IN shorter \cup {Append(t, c) : t \in shorter, c \in {"a", "Han"}}

\* the messages of a request: string contents, or arrays of text and image
\* parts
EstimatorMessages ==
  {[role |-> "user", kind |-> "string", content |-> t] :
     t \in TextsUpTo(MaxTextLen)}
  \cup
  {[role |-> "user", kind |-> "array", content |-> ps] :
     ps \in UNION {[1..n -> {[type |-> "text", text |-> t] :
                               t \in TextsUpTo(1) \ {<<>>}}
                            \cup {[type |-> "image_url", text |-> <<>>]}] :
                    n \in 1..MaxSegments}}

EstimatorBodies ==
  {[NoBody EXCEPT !.json = TRUE, !.model = "claude", !.messages = ms] :
     ms \in UNION {[1..n -> EstimatorMessages] : n \in 1..MaxSegments}}

EstimateInit ==
  /\ body \in EstimatorBodies
  /\ channel = NoChannel
  /\ model = NoModel
  /\ inputTokens = 0
  /\ outputTokens = 0
  /\ NoTransformer
  /\ pc = "estimate"
  /\ token = "none"
  /\ user = NoUser
  /\ estimatedInputTokens = 0
  /\ estimatedCost = 0
  /\ response = NoResponse
  /\ result = NoResult
  /\ status = 0
  /\ error = NoError
  /\ settlement = NoSettlement
  /\ fed = <<>>
  /\ nreq = 0
  /\ calls = <<>>
  /\ NoStore

\* const estimatedInputTokens = estimateInputTokens(body) (index.js 258)
Estimate ==
  /\ pc = "estimate"
  /\ estimatedInputTokens' = estimateInputTokens(body)
  /\ pc' = "estimated"
  /\ UNCHANGED <<xfVars, streamVars, kvVars, listVars, payVars, authVars, token, user, body,
                 estimatedCost, response, result, status, error, settlement,
                 fed, nreq, calls>>

SpecEstimate == EstimateInit /\ [][Estimate]_vars

\* ------------------------------- anthropicToOpenAI, geminiToOpenAI alone
\* the stop reasons a vendor reports, "none" for an absent one
AdapterStops(p) ==
  IF p = ANTHROPIC THEN {"end_turn", "max_tokens", "stop_sequence", "none"}
  ELSE {"STOP", "MAX_TOKENS", "SAFETY", "none"}

\* the shapes of a vendor body's content
AdapterShapes(p) ==
  IF p = ANTHROPIC THEN {"list", "missing", "notList", "nullElement"}
  ELSE {"list", "missing", "notList", "nullElement", "emptyCandidates"}

\* the non-stream bodies a vendor answers with, well formed and malformed,
\* with and without a usage block
AdapterResponses(p) ==
  {[NoResponse EXCEPT !.ok = TRUE, !.json = TRUE,
                      !.content = IF sh = "list" THEN c ELSE <<>>,
                      !.stop = st, !.shape = sh, !.hasUsage = u,
                      !.usage_input = IF u THEN 5 ELSE 0,
                      !.usage_output = IF u THEN 3 ELSE 0,
                      !.model = "vendor-model"] :
     c \in {<<>>, <<"a">>}, st \in AdapterStops(p),
     sh \in AdapterShapes(p), u \in BOOLEAN}

AdapterInit ==
  /\ \E p \in {ANTHROPIC, GEMINI} :
       /\ channel = CHOOSE c \in {Channels[k] : k \in DOMAIN Channels} :
                       c.provider = p /\ c.enabled
       /\ response \in AdapterResponses(p)
  /\ model = NoModel
  /\ inputTokens = 0
  /\ outputTokens = 0
  /\ NoTransformer
  /\ pc = "convert"
  /\ token = "none"
  /\ user = NoUser
  /\ body = NoBody
  /\ estimatedInputTokens = 0
  /\ estimatedCost = 0
  /\ result = NoResult
  /\ status = 0
  /\ error = NoError
  /\ settlement = NoSettlement
  /\ fed = <<>>
  /\ nreq = 0
  /\ calls = <<>>
  /\ NoStore

\* index.js 330-333: result = anthropicToOpenAI(data) or geminiToOpenAI(data)
Convert ==
  /\ pc = "convert"
  /\ result' = IF channel.provider = ANTHROPIC THEN anthropicToOpenAI(response)
               ELSE geminiToOpenAI(response)
  /\ pc' = "converted"
  /\ UNCHANGED <<xfVars, streamVars, kvVars, listVars, payVars, authVars, token, user, body,
                 estimatedInputTokens, estimatedCost, response, status,
                 error, settlement, fed, nreq, calls>>

SpecAdapter == AdapterInit /\ [][Convert]_vars

\* ------------------------------------------- outbound translation alone
OutboundMessages ==
  {[role |-> r, kind |-> "string", content |-> c] :
     r \in {"system", "user", "assistant"},
     c \in {<<>>, <<"a">>, <<"b">>}}

OutboundBodies ==
  {[NoBody EXCEPT !.json = TRUE, !.model = "requested", !.messages = ms] :
     ms \in UNION {[1..n -> OutboundMessages] : n \in 1..MaxMessages}}

OutboundInit ==
  /\ \E p \in ProviderType :
       /\ channel = CHOOSE c \in {Channels[k] : k \in DOMAIN Channels} :
                       c.provider = p /\ c.enabled
       /\ model = ModelOfProvider(p)
  /\ body \in OutboundBodies
  /\ inputTokens = 0
  /\ outputTokens = 0
  /\ NoTransformer
  /\ pc = "translate"
  /\ token = "none"
  /\ user = NoUser
  /\ estimatedInputTokens = 0
  /\ estimatedCost = 0
  /\ response = NoResponse
  /\ result = NoResult
  /\ status = 0
  /\ error = NoError
  /\ settlement = NoSettlement
  /\ fed = <<>>
  /\ nreq = 0
  /\ calls = <<>>
  /\ NoStore

\* index.js 269-280: the upstream body is built
Translate ==
  /\ pc = "translate"
  /\ calls' = <<[Call("translate") EXCEPT !.model = upstreamModel,
                                          !.request = upstreamBody]>>
  /\ pc' = "translated"
  /\ UNCHANGED <<xfVars, streamVars, kvVars, listVars, payVars, authVars, token, user, body,
                 estimatedInputTokens, estimatedCost, response, result,
                 status, error, settlement, fed, nreq>>

SpecOutbound == OutboundInit /\ [][Translate]_vars

\* ------------------------------------------------------------ the claims
\* What the transformer enqueues when the whole vendor stream arrives as one
\* single chunk
SingleChunkOutput ==
  TransformResult([inputTokens |-> 0, outputTokens |-> 0, out |-> <<>>],
                  <<>>, 0, whole, channel.provider, model.model_id).st.out

\* C1: for every vendor type and vendor stream, the records enqueued after
\* the stream was fed in chunks cut at arbitrary bytes are the records
\* enqueued when it is fed as one single chunk.
C1_ChunkingInvariant == closed => enqueued = SingleChunkOutput

\* C10: canonical chunks are enqueued in the order their vendor lines
\* arrived, and no vendor line yields more than one chunk: the line numbers
\* of the enqueued records are strictly increasing.
C10_ArrivalOrder ==
  \A i, j \in 1..Len(enqueued) : i < j => enqueued[i].src < enqueued[j].src

\* a stream of content events has been translated into two chunks and closed
C10_Witness ==
  /\ closed
  /\ Len(enqueued) >= 2
  /\ enqueued[1].kind = "chunk"
  /\ enqueued[2].kind = "chunk"
  /\ Len(enqueued[1].content) > 0
  /\ Len(enqueued[2].content) > 0

\* the calls of one kind made for the request in flight
CallsOf(op) == {k \in 1..Len(calls) : calls[k].op = op}

\* the stored balance of the authenticated user
Balance == kvUsers[user.uid].balance

\* the request in flight has ended and nothing of it is still running
Quiescent ==
  /\ pc \in {"done", "failed"}
  /\ settlement.pc \in {"none", "done", "failed"}

\* C2: every completed chat-completion request (a non-stream request
\* answered with the canonical response, or a stream request whose stream was
\* opened and has ended) has made exactly one recordUsage call, also when the
\* debit fails or env has no waitUntil hook.
C2_ExactlyOneUsageRecord ==
  (Quiescent /\ pc = "done" /\ status = 200)
     => Cardinality(CallsOf("recordUsage")) = 1

\* a model identifier that is unknown or disabled, or whose channel is
\* missing or disabled
ModelUnavailable(m) ==
  \/ m \notin DOMAIN Models
  \/ ~Models[m].enabled
  \/ Models[m].channel_id \notin DOMAIN Channels
  \/ ~Channels[Models[m].channel_id].enabled

\* C3: a request whose model is unknown or disabled, or whose channel is
\* missing or disabled, goes no further than model resolution: it is
\* answered 404 and makes no vendor dispatch, no updateBalance call and no
\* recordUsage call, and the balance is unchanged.
C3_ModelUnavailable ==
  (body.json /\ body.model # "" /\ ModelUnavailable(body.model))
     => /\ pc \in {"parsed", "failed"}
        /\ pc = "failed" => status = 404
        /\ calls = <<>>
        /\ Balance = user.balance

\* a request for a model whose channel is disabled has been answered 404
C3_Witness ==
  /\ pc = "failed"
  /\ status = 404
  /\ body.model = "chdis"

\* the pre-flight estimate of the claim: the cost of the estimated input
\* tokens and 100 output tokens, in thousandths
PreflightEstimate ==
  estimateInputTokens(body) * model.input_price + 100 * model.output_price

\* C4: once the model is resolved and the admission check has run, a user
\* whose balance is below the pre-flight estimate has been answered 402 with
\* no call made and the balance unchanged, and a user whose balance is at
\* least the estimate (exactly equal included) has been admitted: the
\* request is at or past dispatch, and if it failed it failed at the vendor.
C4_Admission ==
  (model.model_id # "none" /\ pc # "resolved")
     => IF user.balance < PreflightEstimate
        THEN /\ pc = "failed"
             /\ status = 402
             /\ calls = <<>>
             /\ Balance = user.balance
        ELSE \/ pc = "admitted" /\ calls = <<>>
             \/ /\ pc \in {"dispatched", "streaming", "settling", "done"}
                /\ Cardinality(CallsOf("dispatch")) = 1
             \/ /\ pc = "failed"
                /\ status = 502
                /\ Cardinality(CallsOf("dispatch")) = 1

\* a user whose balance equals the estimate has been dispatched
C4_Witness ==
  /\ model.model_id # "none"
  /\ user.balance = PreflightEstimate
  /\ pc = "dispatched"
  /\ Cardinality(CallsOf("dispatch")) = 1

\* the balance has been debited for the request in flight
Debited == \E k \in CallsOf("updateBalance") : ~calls[k].threw

\* the transformer has processed the upstream terminal marker
TerminalSeen == \E k \in 1..Len(enqueued) : enqueued[k].kind = "done"

\* C5 as claimed: the debit of a stream request occurs only after the
\* transformer has processed the upstream terminal marker.
C5_DebitAfterTerminal == (body.stream /\ Debited) => TerminalSeen

\* C5 as amended: the settlement of a stream request is started when the
\* stream is opened, so the debit occurs only after the one vendor dispatch
\* has succeeded and the stream has been opened for the client; it is not
\* ordered relative to the terminal marker.
C5_DebitAfterOpen ==
  (body.stream /\ CallsOf("updateBalance") # {})
     => /\ pc \in {"streaming", "done"}
        /\ status = 200
        /\ response.ok
        /\ \E d \in CallsOf("dispatch") :
              \A u \in CallsOf("updateBalance") : d < u

\* a stream that ended without a terminal marker was debited while it ran
C5_Witness ==
  /\ body.stream
  /\ Debited
  /\ pc = "streaming"
  /\ ~TerminalSeen
  /\ fed = <<>>

\* a vendor event carrying a usage block has reached the transformer
UsageBlockSeen ==
  \E k \in 1..Len(fed) : fed[k][2] \in Heads /\ EventOf(fed[k][2]).hasUsage

\* C6 as claimed: a stream request is settled with the counts the
\* transformer accumulated when a usage block arrived, and with the input
\* estimate and 500 output tokens only when none arrived.
C6_SettlesAccumulated ==
  (body.stream /\ closed)
     => \A k \in CallsOf("recordUsage") :
          IF UsageBlockSeen
          THEN /\ calls[k].inputTokens = finalUsage.inputTokens
               /\ calls[k].outputTokens = finalUsage.outputTokens
          ELSE /\ calls[k].inputTokens = estimateInputTokens(body)
               /\ calls[k].outputTokens = 500

\* C6 as amended: a stream request is always settled with the pre-flight
\* input estimate and 500 output tokens, whether or not a usage block
\* arrived: the debit is the cost of these counts and the usage record
\* carries them.
C6_SettlesPlaceholder ==
  body.stream
     => /\ \A k \in CallsOf("updateBalance") :
             calls[k].amount =
                0 - (estimateInputTokens(body) * model.input_price
                     + 500 * model.output_price)
        /\ \A k \in CallsOf("recordUsage") :
             /\ calls[k].inputTokens = estimateInputTokens(body)
             /\ calls[k].outputTokens = 500
             /\ calls[k].amount =
                   estimateInputTokens(body) * model.input_price
                   + 500 * model.output_price

\* a stream whose vendor reported usage has ended and been recorded, and the
\* transformer's counts differ from the recorded ones
C6_Witness ==
  /\ body.stream
  /\ closed
  /\ UsageBlockSeen
  /\ CallsOf("recordUsage") # {}
  /\ finalUsage.set
  /\ finalUsage.outputTokens # 500

\* the usage a non-stream settlement is due: the vendor's counts, the input
\* falling back to the estimate
DueInput ==
  IF response.hasUsage /\ response.usage_input # 0
  THEN response.usage_input ELSE estimateInputTokens(body)
DueOutput == IF response.hasUsage THEN response.usage_output ELSE 0
DueCost == DueInput * model.input_price + DueOutput * model.output_price

\* C7: after every successful non-stream response the balance is lower by
\* exactly the cost of the vendor-reported usage, and one usage record with
\* the same counts and cost has been appended.
C7_ExactDebit ==
  (~body.stream /\ pc = "done" /\ status = 200)
     => /\ Balance = user.balance - DueCost
        /\ Cardinality(CallsOf("recordUsage")) = 1
        /\ \A k \in CallsOf("recordUsage") :
             /\ calls[k].inputTokens = DueInput
             /\ calls[k].outputTokens = DueOutput
             /\ calls[k].amount = DueCost

\* C8: every canonical response and every canonical stream chunk that
\* carries a model field carries the identifier the client requested.
C8_RequestedModel ==
  /\ (~body.stream /\ pc = "done" /\ status = 200)
        => result.model = body.model
  /\ (body.stream /\ pc \in {"streaming", "done"})
        => \A k \in 1..Len(enqueued) :
              enqueued[k].model # "none" => enqueued[k].model = body.model

StageOf(p) ==
  CASE p = "idle" -> 0
    [] p = "received" -> 1
    [] p = "authenticated" -> 2
    [] p = "parsed" -> 3
    [] p = "resolved" -> 4
    [] p = "admitted" -> 5
    [] p = "dispatched" -> 6
    [] p \in {"streaming", "settling"} -> 7
    [] p \in {"done", "failed"} -> 8

\* C9: a request moves one stage forward at a time or fails and ends; the
\* vendor is dispatched at most once, from the admitted stage of an
\* authenticated request with a resolved model and a sufficient balance;
\* the settlement calls come after the dispatch; an ended request moves no
\* more.
C9_StageOrder ==
  [][/\ pc' # pc =>
          \/ pc' = "received" /\ StageOf(pc) \in {0, 8} /\ nreq' = nreq + 1
          \/ pc' = "failed" /\ StageOf(pc) \in 1..6
          \/ pc' # "failed" /\ pc' # "received"
                /\ StageOf(pc') = StageOf(pc) + 1
     /\ CallsOf("dispatch")' # CallsOf("dispatch") /\ pc' # "received" =>
          /\ pc = "admitted"
          /\ CallsOf("dispatch") = {}
          /\ Cardinality(CallsOf("dispatch")') = 1
          /\ user.uid # "none"
          /\ model.model_id = body.model
          /\ user.balance >= PreflightEstimate
     /\ (CallsOf("updateBalance") \cup CallsOf("recordUsage"))'
           # (CallsOf("updateBalance") \cup CallsOf("recordUsage"))
        /\ pc' # "received" =>
          /\ Cardinality(CallsOf("dispatch")) = 1
          /\ StageOf(pc) >= 7
    ]_vars

\* a stream request has gone through every stage and been settled
C9_Witness ==
  /\ pc = "done"
  /\ body.stream
  /\ settlement.pc = "done"
  /\ Cardinality(CallsOf("dispatch")) = 1

\* the bytes handed to transform in this step
FedChunk == SubSeq(upstream, 1, Len(upstream) - Len(upstream'))

\* C11: a vendor line that cannot be parsed is skipped: nothing is enqueued
\* for it, and every call of transform leaves the enqueued records and the
\* running token counts exactly as if the malformed lines of the call had
\* been empty lines, so the well-formed lines after a malformed one are
\* still translated.
C11_MalformedSkipped ==
  [][(pc = "off" /\ upstream' # upstream) =>
       LET lines == Split(buffer \o TextDecode(FedChunk))
           complete == SubSeq(lines, 1, Len(lines) - 1)
           blanked == [k \in 1..Len(complete) |->
                         IF Malformed(complete[k]) THEN <<>> ELSE complete[k]]
           r == ProcessLines(ClosureState, blanked, 1, linesSeen,
                             channel.provider, model.model_id)
       IN /\ enqueued' = r.out
          /\ inputTokens' = r.inputTokens
          /\ outputTokens' = r.outputTokens
          /\ \A k \in 1..Len(complete) :
                Malformed(complete[k]) =>
                  \A j \in 1..Len(enqueued') :
                    enqueued'[j].src # linesSeen + k
     ]_vars

\* a stream whose first line is malformed has ended with a chunk made from
\* its second line
C11_Witness ==
  /\ closed
  /\ pc = "off"
  /\ Len(Split(whole)) >= 2
  /\ Malformed(Split(whole)[1])
  /\ \E j \in 1..Len(enqueued) :
        enqueued[j].src = 2 /\ enqueued[j].kind = "chunk"

\* C12: once the upstream stream has ended, the terminal marker has been
\* enqueued exactly once and it is the last record enqueued.
C12_TerminatedByMarker ==
  closed =>
    /\ enqueued # <<>>
    /\ enqueued[Len(enqueued)].kind = "done"
    /\ Cardinality({k \in 1..Len(enqueued) : enqueued[k].kind = "done"}) = 1

\* C13: the Gemini stream "Hel", "lo", STOP yields exactly two delta chunks
\* with those texts and then a terminal chunk with finish_reason stop.
C13_HelLoStop ==
  (closed /\ whole = HelLoStream /\ channel.provider = GEMINI) =>
    /\ Len(enqueued) = 3
    /\ enqueued[1].kind = "chunk"
    /\ enqueued[1].content = <<"H", "e", "l">>
    /\ enqueued[1].finish_reason = "null"
    /\ enqueued[2].kind = "chunk"
    /\ enqueued[2].content = <<"l", "o">>
    /\ enqueued[2].finish_reason = "null"
    /\ enqueued[3].kind = "chunk"
    /\ enqueued[3].content = <<>>
    /\ enqueued[3].finish_reason = "stop"

\* the vendor answer of the scenario: "Hi there!", end_turn, usage {5, 3}
HiThereResponse ==
  [NoResponse EXCEPT !.ok = TRUE, !.json = TRUE, !.content = HiThere,
                     !.stop = "end_turn", !.hasUsage = TRUE,
                     !.usage_input = 5, !.usage_output = 3,
                     !.model = "claude-upstream"]

\* the request of the scenario has been answered: model gpt-4o on the
\* Anthropic channel priced 5 and 15, one user message, no stream
HiThereScenario ==
  /\ pc = "done"
  /\ status = 200
  /\ ~body.stream
  /\ body.model = "gpt-4o"
  /\ Len(body.messages) = 1
  /\ body.messages[1].role = "user"
  /\ channel.provider = ANTHROPIC
  /\ model.input_price = 5
  /\ model.output_price = 15
  /\ response = HiThereResponse

\* C14: the end-to-end non-stream scenario yields the canonical response
\* with model gpt-4o, content "Hi there!", finish_reason stop, and one debit
\* of 0.07 (70 thousandths) that leaves the balance 0.07 lower.
C14_HiThere ==
  HiThereScenario =>
    /\ result.model = "gpt-4o"
    /\ result.content = HiThere
    /\ result.finish_reason = "stop"
    /\ Cardinality(CallsOf("updateBalance")) = 1
    /\ \A k \in CallsOf("updateBalance") :
          calls[k].amount = 0 - 70 /\ ~calls[k].threw
    /\ Balance = user.balance - 70

\* the scenario has run and been debited
C14_Witness ==
  /\ HiThereScenario
  /\ Balance = user.balance - 70

\* C15: calculateCost(model, i, o) is i/1000 * input_price + o/1000 *
\* output_price (here in thousandths), it is 0 for no tokens, it is linear
\* in each token argument, and it is never negative for a model record the
\* gateway can read and non-negative token counts.
C15_CostContract ==
  pc = "costed" =>
    /\ estimatedCost = inputTokens * model.input_price
                          + outputTokens * model.output_price
    /\ calculateCost(model, 0, 0) = 0
    /\ \A i1, i2, o \in 0..MaxTokens :
          calculateCost(model, i1 + i2, o)
            = calculateCost(model, i1, o) + calculateCost(model, i2, o)
                - calculateCost(model, 0, o)
    /\ \A i, o1, o2 \in 0..MaxTokens :
          calculateCost(model, i, o1 + o2)
            = calculateCost(model, i, o1) + calculateCost(model, i, o2)
                - calculateCost(model, i, 0)
    /\ estimatedCost >= 0

\* the text segments of a request, in order: string contents and the texts
\* of text parts
RECURSIVE PartTexts(_)
PartTexts(parts) ==
  IF parts = <<>> THEN <<>>
  ELSE (IF Head(parts).type = "text" THEN <<Head(parts).text>> ELSE <<>>)
       \o PartTexts(Tail(parts))

RECURSIVE Segments(_)
Segments(msgs) ==
  IF msgs = <<>> THEN <<>>
  ELSE (IF Head(msgs).kind = "string" THEN <<Head(msgs).content>>
        ELSE PartTexts(Head(msgs).content))
       \o Segments(Tail(msgs))

\* all the text of a request as one string
RECURSIVE Flatten(_)
Flatten(segs) ==
  IF segs = <<>> THEN <<>> ELSE Head(segs) \o Flatten(Tail(segs))

\* twelve times the unrounded cost of a text: 8 per CJK character (1/1.5
\* token), 3 per other character (1/4 token)
Twelfths(text) ==
  LET cjk == Cardinality({k \in 1..Len(text) : text[k] = "Han"})
  IN 8 * cjk + 3 * (Len(text) - cjk)

\* C16: the estimate of a request is the per-character costs summed over
\* all text segments of all messages and rounded up once, so it does not
\* depend on how the text is divided among messages or parts.
C16_RoundedOnce ==
  pc = "estimated" =>
    estimatedInputTokens
      = CeilDiv(Twelfths(Flatten(Segments(body.messages))), 12)

\* C17: the finish_reason of every canonical non-stream response made by
\* anthropicToOpenAI or geminiToOpenAI is stop, length, content_filter or
\* null ("none"), whatever the vendor's stop reason.
C17_FinishReasonEnum ==
  (pc = "converted" /\ ~result.threw) =>
    result.finish_reason \in {"stop", "length", "content_filter", "none"}

\* C19: anthropicToOpenAI and geminiToOpenAI are total: for every vendor
\* body, malformed ones included, they return instead of throwing, with
\* empty content for a malformed body and usage 0 for an absent usage block.
C19_AdaptersTotal ==
  pc = "converted" =>
    /\ ~result.threw
    /\ response.shape # "list" => result.content = <<>>
    /\ ~response.hasUsage =>
          result.prompt_tokens = 0 /\ result.completion_tokens = 0

\* the contents of the system messages of a turn list, in order
SystemContents(msgs) ==
  LET sys == SelectSeq(msgs, LAMBDA m : m.role = "system")
  IN [k \in 1..Len(sys) |-> sys[k].content]

\* the contents of the other messages, in order
OtherContents(msgs) ==
  LET rest == SelectSeq(msgs, LAMBDA m : m.role # "system")
  IN [k \in 1..Len(rest) |-> rest[k].content]

\* strings joined with a newline between each two
RECURSIVE JoinNL(_)
JoinNL(ss) ==
  IF ss = <<>> THEN <<>>
  ELSE IF Len(ss) = 1 THEN ss[1]
  ELSE ss[1] \o <<"NL">> \o JoinNL(Tail(ss))

\* the system instructions an upstream body carries: its inline system
\* messages (OpenAI) or its system slot (Anthropic, Gemini)
SystemInstructions(req) ==
  IF req.format = OPENAI THEN SystemContents(req.messages)
  ELSE IF req.hasSystem THEN <<req.system>> ELSE <<>>

\* C18: for every vendor type, a request with several system messages is
\* sent upstream with exactly one system instruction, their contents joined
\* in order with a newline, and with the other messages in the same order
\* and number.
C18_OneSystemInstruction ==
  (pc = "translated" /\ Len(SystemContents(body.messages)) >= 2) =>
    LET req == calls[1].request
    IN /\ SystemInstructions(req) = <<JoinNL(SystemContents(body.messages))>>
       /\ OtherContents(req.messages) = OtherContents(body.messages)

\* the vendor failed the request in flight: non-2xx or transport failure
VendorFailed == \E k \in CallsOf("dispatch") : calls[k].threw

\* C20: when the vendor answers non-2xx or the transport fails, the request
\* has ended with a 5xx response whose body is {error: {message, code}}, the
\* vendor has been called once for it, and nothing was settled.
C20_UpstreamError ==
  VendorFailed =>
    /\ pc = "failed"
    /\ status \in 500..599
    /\ DOMAIN error = {"message", "code"}
    /\ error.message = MessageOf(status)
    /\ error.code = "error"
    /\ Cardinality(CallsOf("dispatch")) = 1
    /\ CallsOf("updateBalance") = {}
    /\ CallsOf("recordUsage") = {}

\* a request has been answered 502 after its vendor call failed
C20_Witness ==
  /\ VendorFailed
  /\ pc = "failed"
  /\ status = 502

\* the chunks the transformer enqueues for the lines fed so far, whatever
\* the settlement does
ChunksOfFed ==
  ProcessLines([inputTokens |-> 0, outputTokens |-> 0, out |-> <<>>],
               fed, 1, 0, channel.provider, model.model_id).out

BlockedKey(tok) ==
  /\ tok \in DOMAIN ApiKeys
  /\ ApiKeys[tok].enabled
  /\ ApiKeys[tok].uid \in DOMAIN kvUsers
  /\ kvUsers[ApiKeys[tok].uid].is_blocked

\* C23: a missing, unknown or disabled API key is answered 401 and a valid
\* enabled key of a blocked user 403, with no vendor dispatch and no balance
\* change in either case.
C23_AuthOutcomes ==
  /\ (pc \notin {"idle", "received"} /\ token \in {"none", "bad", "koff"}) =>
        (pc = "failed" /\ status = 401 /\ calls = <<>>)
  /\ (pc \notin {"idle", "received"} /\ BlockedKey(token)) =>
        (pc = "failed" /\ status = 403 /\ calls = <<>>)

\* the stream's last line is the event h alone, newline-terminated
EndsWithEvent(h) ==
  LET n == Len(whole)
  IN /\ n >= 4
     /\ SubSeq(whole, n - 3, n) = <<"D", h, "}", "NL">>
     /\ (n = 4 \/ whole[n - 4] = "NL")

\* the usage events of a vendor type; message_delta "md_use" reports
\* output_tokens only
UsageHeadsOf(p) ==
  {h \in HeadsOf(p) \cup ZeroHeads :
     /\ EventOf(h).hasUsage
     /\ (p = ANTHROPIC) = (EventOf(h).type = "message_delta")
     /\ (p = OPENAI) = (EventOf(h).type = "chat.completion.chunk")}

\* C24: after an event with an authoritative usage block has been processed
\* the running input and output counts equal the values of that block, a
\* reported 0 included, whatever was accumulated before.
C24_UsageOverwrites ==
  \A h \in UsageHeadsOf(channel.provider) :
    (closed /\ pc = "off" /\ EndsWithEvent(h)) =>
      /\ outputTokens = EventOf(h).usage_output
      /\ h # "md_use" => inputTokens = EventOf(h).usage_input

\* C25: on an Anthropic channel every message_delta event that carries a
\* stop reason yields a chunk whose finish_reason is not null, and stop for
\* end_turn.
C25_StopReasonMapped ==
  (pc = "off" /\ channel.provider = ANTHROPIC) =>
    \A k \in 1..Len(enqueued) :
      LET line == Split(whole)[enqueued[k].src]
      IN (/\ Len(line) >= 2
          /\ line[2] \in AnthropicHeads \cup {"md_zero"}
          /\ EventOf(line[2]).type = "message_delta"
          /\ EventOf(line[2]).stop_reason # "none") =>
            /\ enqueued[k].finish_reason # "null"
            /\ EventOf(line[2]).stop_reason = "end_turn" =>
                  enqueued[k].finish_reason = "stop"

\* ------------------------------------------------------ handleListModels
\* kv.list's default limit (oauth.js 132)
ListLimit == 100

\* the number of model records of the small stores
MaxModels == 3

\* The stores GET /v1/models is served from, their records in the order of
\* the keys model:{model_id}: every store of up to MaxModels records, and a
\* store of one record more than kv.list returns, all enabled
ModelStores ==
  UNION {{[i \in 1..n |-> [model_id |-> i, enabled |-> f[i]]] :
            f \in [1..n -> BOOLEAN]} : n \in 0..MaxModels}
  \cup {[i \in 1..(ListLimit + 1) |-> [model_id |-> i, enabled |-> TRUE]]}

\* kv.list({ prefix, limit }): the first `limit` keys under the prefix
list(keys, limit) ==
  SubSeq(keys, 1, IF Len(keys) < limit THEN Len(keys) ELSE limit)

\* listModels (oauth.js 483-495): get each key that list returned
listModels(store) == list(store, ListLimit)

\* models.filter(m => m.enabled).map(...) (index.js 368-380)
ModelList(store) ==
  LET enabledModels == SelectSeq(listModels(store), LAMBDA m : m.enabled)
  IN [k \in 1..Len(enabledModels) |->
        [id |-> enabledModels[k].model_id, object |-> "model"]]

ModelsInit ==
  /\ kvModels \in ModelStores
  /\ listing = NoListing
  /\ kvOrders = <<>>
  /\ tasks = <<>>
  /\ NoAuth
  /\ NoLedger
  /\ token \in Tokens
  /\ NoAnswer
  /\ channel = NoChannel
  /\ model = NoModel
  /\ inputTokens = 0
  /\ outputTokens = 0
  /\ NoTransformer
  /\ pc = "list"

\* GET /v1/models: the token is read and not used
ListModels ==
  /\ pc = "list"
  /\ listing' = [status |-> 200, data |-> ModelList(kvModels)]
  /\ pc' = "listed"
  /\ UNCHANGED <<xfVars, streamVars, kvVars, kvModels, payVars, authVars, token, user,
                 body, estimatedInputTokens, estimatedCost, response, result,
                 status, error, settlement, fed, nreq, calls>>

SpecModels == ModelsInit /\ [][ListModels]_vars

\* C22: GET /v1/models is answered whatever the credential, with exactly
\* the enabled model records: every enabled model once, no disabled model.
C22_EnabledModelsListed ==
  pc = "listed" =>
    /\ listing.status = 200
    /\ \A i \in 1..Len(kvModels) :
          Cardinality({k \in 1..Len(listing.data) :
                         listing.data[k].id = kvModels[i].model_id})
            = IF kvModels[i].enabled THEN 1 ELSE 0
    /\ \A k \in 1..Len(listing.data) :
          \E i \in 1..Len(kvModels) :
            listing.data[k].id = kvModels[i].model_id

\* ------------------------------------------ orders and balance updates
\* The KV client's createOrder, completeOrder and updateBalance, with every
\* `await` on the store a step of its own, so that calls in flight
\* interleave; and the handlers that call them.

\* the orders created and the calls started
MaxOrders == 1
MaxCalls == 2

\* amounts in thousandths: an order of 10, balances of -20 (set through the
\* admin user update), 0 and 50, and the costs of two settlements
OrderMoney == {10000}
PayBalances == {0 - 20000, 0, 50000}
SettleCosts == {30, 70}

\* createOrder's own number, handed to the platform as out_trade_no, and
\* the number the platform gives the payment
LocalTradeNo(n) == <<"V", n>>
PlatformTradeNo(n) == <<"P", n>>

NoOrder == [trade_no |-> <<>>, uid |-> "none", money |-> 0, status |-> 0]

\* One call in flight or finished.  via is the handler that made it;
\* paid is the number of the order a notification is about; order and user
\* are the call's local copies; read is the balance getUser returned and
\* seenWrites the number of balance writes made before that read; caller is
\* ctx.user of a query and params what a notification carried.
NoTask ==
  [op |-> "none", via |-> "none", pc |-> "none", tradeNo |-> <<>>,
   caller |-> "none", params |-> [sign_ok |-> FALSE, trade_status |-> "none"],
   paid |-> 0, order |-> NoOrder, uid |-> "none", delta |-> 0, read |-> 0,
   seenWrites |-> 0,
   user |-> [uid |-> "none", balance |-> 0, total_consumed |-> 0,
             is_blocked |-> FALSE],
   status |-> 0]

Finished == {"returned", "threw", "rejected"}

AllFinished == \A t \in 1..Len(tasks) : tasks[t].pc \in Finished

\* getOrder (oauth.js 355-357): the stored order of that number, or none
HasOrder(tradeNo) == \E n \in 1..Len(kvOrders) : kvOrders[n].trade_no = tradeNo

getOrder(tradeNo) ==
  IF HasOrder(tradeNo)
  THEN kvOrders[CHOOSE n \in 1..Len(kvOrders) :
                  kvOrders[n].trade_no = tradeNo]
  ELSE NoOrder

\* handleNotify without the signature check
handleNotify_SkipsSignature(params) ==
  IF params.trade_status # "TRADE_SUCCESS"
  THEN [success |-> FALSE, tradeNo |-> <<>>]
  ELSE [success |-> TRUE, tradeNo |-> params.trade_no]

\* handleNotify (payment.js 120-141): the signature, then trade_status;
\* data.tradeNo is params.trade_no
handleNotify(params) ==
  IF ~params.sign_ok THEN [success |-> FALSE, tradeNo |-> <<>>]
  ELSE IF params.trade_status # "TRADE_SUCCESS"
  THEN [success |-> FALSE, tradeNo |-> <<>>]
  ELSE [success |-> TRUE, tradeNo |-> params.trade_no]

\* what the handler answers when the call it awaits throws: handlePayNotify
\* answers fail 500, handleQueryOrder logs and answers the order
ThrowStatus(via) == IF via = "notify" THEN 500 ELSE IF via = "query" THEN 200 ELSE 0

PayInit ==
  /\ kvUsers \in {[u \in Uids |->
                     [uid |-> u, balance |-> IF u = "u1" THEN b ELSE 0,
                      total_consumed |-> 0, is_blocked |-> (u = "u2")]] :
                  b \in PayBalances}
  /\ kvUsage = [u \in Uids |-> ZeroUsage]
  /\ hasWaitUntil = TRUE
  /\ kvModels = <<>>
  /\ listing = NoListing
  /\ kvOrders = <<>>
  /\ tasks = <<>>
  /\ NoAuth
  /\ NoRequest
  /\ channel = NoChannel
  /\ model = NoModel
  /\ inputTokens = 0
  /\ outputTokens = 0
  /\ NoTransformer
  /\ pc = "pay"

\* what the order and balance steps leave alone
PayFrame ==
  UNCHANGED <<xfVars, streamVars, kvUsage, hasWaitUntil, listVars, authVars,
              reqVars>>

\* handleCreateOrder (pay/index.js 14-53): kv.createOrder(ctx.user.uid, money)
CreateOrder ==
  /\ pc = "pay"
  /\ Len(kvOrders) < MaxOrders
  /\ \E money \in OrderMoney :
        kvOrders' = Append(kvOrders,
                           [trade_no |-> LocalTradeNo(Len(kvOrders) + 1),
                            uid |-> "u1", money |-> money, status |-> 0])
  /\ UNCHANGED <<kvUsers, tasks, calls>>
  /\ PayFrame

\* handlePayNotify (pay/index.js 59-94): the platform notifies the payment
\* of order n with out_trade_no the order's number and trade_no its own
PayNotify ==
  /\ pc = "pay"
  /\ Len(tasks) < MaxCalls
  /\ \E n \in 1..Len(kvOrders), ok \in BOOLEAN,
        st \in {"TRADE_SUCCESS", "TRADE_CLOSED"} :
        LET params == [out_trade_no |-> LocalTradeNo(n),
                       trade_no |-> PlatformTradeNo(n),
                       sign_ok |-> ok, trade_status |-> st]
            r == handleNotify(params)
            q == [NoTask EXCEPT !.via = "notify", !.paid = n,
                                !.params = [sign_ok |-> ok,
                                            trade_status |-> st]]
        IN tasks' = Append(tasks,
             IF r.success
             THEN [q EXCEPT !.op = "completeOrder", !.pc = "getOrder",
                            !.tradeNo = r.tradeNo]
             ELSE [q EXCEPT !.op = "handleNotify", !.pc = "rejected",
                            !.status = 400])
  /\ UNCHANGED <<kvUsers, kvOrders, calls>>
  /\ PayFrame

\* handleQueryOrder completing the order for any signed-in caller
QueryOrder_SkipsOwnerCheck ==
  /\ pc = "pay"
  /\ Len(tasks) < MaxCalls
  /\ \E n \in 1..(Len(kvOrders) + 1), caller \in Uids \cup {"none"},
        paid \in BOOLEAN :
        LET tradeNo == LocalTradeNo(n)
            order == getOrder(tradeNo)
            q == [NoTask EXCEPT !.op = "handleQueryOrder", !.via = "query",
                                !.tradeNo = tradeNo, !.caller = caller]
        IN tasks' = Append(tasks,
             IF caller = "none"
             THEN [q EXCEPT !.pc = "rejected", !.status = 401]
             ELSE IF ~HasOrder(tradeNo)
             THEN [q EXCEPT !.pc = "rejected", !.status = 404]
             ELSE IF order.status = 0 /\ paid
             THEN [q EXCEPT !.op = "completeOrder", !.pc = "getOrder"]
             ELSE [q EXCEPT !.pc = "returned", !.status = 200])
  /\ UNCHANGED <<kvUsers, kvOrders, calls>>
  /\ PayFrame

\* handleQueryOrder (pay/index.js 100-141) by a caller signed in or not;
\* the platform says whether the payment was made
QueryOrder ==
  /\ pc = "pay"
  /\ Len(tasks) < MaxCalls
  /\ \E n \in 1..(Len(kvOrders) + 1), caller \in Uids \cup {"none"},
        paid \in BOOLEAN :
        LET tradeNo == LocalTradeNo(n)
            order == getOrder(tradeNo)
            q == [NoTask EXCEPT !.op = "handleQueryOrder", !.via = "query",
                                !.tradeNo = tradeNo, !.caller = caller]
        IN tasks' = Append(tasks,
             IF caller = "none"
             THEN [q EXCEPT !.pc = "rejected", !.status = 401]
             ELSE IF ~HasOrder(tradeNo)
             THEN [q EXCEPT !.pc = "rejected", !.status = 404]
             ELSE IF order.uid # caller
             THEN [q EXCEPT !.pc = "rejected", !.status = 403]
             ELSE IF order.status = 0 /\ paid
             THEN [q EXCEPT !.op = "completeOrder", !.pc = "getOrder"]
             ELSE [q EXCEPT !.pc = "returned", !.status = 200])
  /\ UNCHANGED <<kvUsers, kvOrders, calls>>
  /\ PayFrame

\* a chat completion's settlement starts kv.updateBalance(user.uid, -cost)
\* (index.js 309 and 346)
Settle ==
  /\ pc = "pay"
  /\ Len(tasks) < MaxCalls
  /\ \E cost \in SettleCosts :
        tasks' = Append(tasks,
                        [NoTask EXCEPT !.op = "updateBalance",
                                       !.via = "settle", !.pc = "getUser",
                                       !.uid = "u1", !.delta = 0 - cost])
  /\ UNCHANGED <<kvUsers, kvOrders, calls>>
  /\ PayFrame

\* completeOrder (oauth.js 363-369): const order = await this.getOrder(..)
GetOrder ==
  \E t \in 1..Len(tasks) :
    /\ tasks[t].pc = "getOrder"
    /\ LET order == getOrder(tasks[t].tradeNo)
       IN tasks' = [tasks EXCEPT ![t] =
            IF ~HasOrder(tasks[t].tradeNo)
            THEN [@ EXCEPT !.pc = "threw", !.status = ThrowStatus(tasks[t].via)]
            ELSE IF order.status = 1
            THEN [@ EXCEPT !.pc = "returned", !.status = 200]
            ELSE [@ EXCEPT !.pc = "setOrder", !.order = order]]
    /\ UNCHANGED <<kvUsers, kvOrders, calls>>
    /\ PayFrame

\* completeOrder (oauth.js 371-373): order.status = 1; await this.set(..)
SetOrder ==
  \E t \in 1..Len(tasks) :
    /\ tasks[t].pc = "setOrder"
    /\ kvOrders' = [n \in 1..Len(kvOrders) |->
                      IF kvOrders[n].trade_no = tasks[t].tradeNo
                      THEN [tasks[t].order EXCEPT !.status = 1]
                      ELSE kvOrders[n]]
    /\ tasks' = [tasks EXCEPT ![t] =
                   [@ EXCEPT !.pc = "getUser", !.uid = tasks[t].order.uid,
                             !.delta = tasks[t].order.money]]
    /\ UNCHANGED <<kvUsers, calls>>
    /\ PayFrame

\* updateBalance (oauth.js 187-199): const user = await this.getUser(uid),
\* then the checks and the change of the local copy
GetUser ==
  \E t \in 1..Len(tasks) :
    /\ tasks[t].pc = "getUser"
    /\ LET r == updateBalance(kvUsers, tasks[t].uid, tasks[t].delta)
       IN tasks' = [tasks EXCEPT ![t] =
            IF r.threw
            THEN [@ EXCEPT !.pc = "threw", !.status = ThrowStatus(tasks[t].via)]
            ELSE [@ EXCEPT !.pc = "setUser",
                           !.read = kvUsers[tasks[t].uid].balance,
                           !.seenWrites = Len(calls),
                           !.user = r.users[tasks[t].uid]]]
    /\ UNCHANGED <<kvUsers, kvOrders, calls>>
    /\ PayFrame

\* the record of one balance write
BalanceWrite(t, balance) ==
  [op |-> "setUser", task |-> t, uid |-> tasks[t].uid,
   amount |-> tasks[t].delta, balance |-> balance,
   tradeNo |-> IF tasks[t].op = "completeOrder" THEN tasks[t].tradeNo
                                                ELSE <<>>]

\* setUser storing the balance found in the store plus delta
SetUser_Rereads ==
  \E t \in 1..Len(tasks) :
    /\ tasks[t].pc = "setUser"
    /\ kvUsers' = updateBalance(kvUsers, tasks[t].uid, tasks[t].delta).users
    /\ calls' = Append(calls, BalanceWrite(t, kvUsers'[tasks[t].uid].balance))
    /\ tasks' = [tasks EXCEPT ![t] = [@ EXCEPT !.pc = "returned",
                                               !.status = 200]]
    /\ UNCHANGED kvOrders
    /\ PayFrame

\* updateBalance (oauth.js 202): await this.setUser(uid, user)
SetUser ==
  \E t \in 1..Len(tasks) :
    /\ tasks[t].pc = "setUser"
    /\ kvUsers' = [kvUsers EXCEPT ![tasks[t].uid] = tasks[t].user]
    /\ calls' = Append(calls, BalanceWrite(t, tasks[t].user.balance))
    /\ tasks' = [tasks EXCEPT ![t] = [@ EXCEPT !.pc = "returned",
                                               !.status = 200]]
    /\ UNCHANGED kvOrders
    /\ PayFrame

PayNext ==
  \/ CreateOrder
  \/ PayNotify
  \/ QueryOrder
  \/ Settle
  \/ GetOrder
  \/ SetOrder
  \/ GetUser
  \/ SetUser

SpecPay == PayInit /\ [][PayNext]_vars

\* the same calls made one after another
SeqPayNotify == AllFinished /\ PayNotify
SeqQueryOrder == AllFinished /\ QueryOrder

SeqPayNext ==
  \/ CreateOrder
  \/ SeqPayNotify
  \/ SeqQueryOrder
  \/ GetOrder
  \/ SetOrder
  \/ GetUser
  \/ SetUser

SpecPaySeq == PayInit /\ [][SeqPayNext]_vars

\* the balance writes that credit order n
CreditsOf(n) ==
  {k \in 1..Len(calls) :
     calls[k].op = "setUser" /\ calls[k].tradeNo = LocalTradeNo(n)}

\* call t has written a balance; the place of that write among the writes
Wrote(t) == \E k \in 1..Len(calls) : calls[k].task = t
WriteOf(t) == CHOOSE k \in 1..Len(calls) : calls[k].task = t

\* calls t1 and t2 updated the same user's balance, each read it before
\* any write, t1 wrote first and t2 second, and nothing was written since
BothReadThenWrote(t1, t2) ==
  /\ t1 # t2
  /\ Wrote(t1)
  /\ Wrote(t2)
  /\ tasks[t1].uid = tasks[t2].uid
  /\ tasks[t1].seenWrites = 0
  /\ tasks[t2].seenWrites = 0
  /\ Len(calls) = 2
  /\ WriteOf(t1) = 1
  /\ WriteOf(t2) = 2

\* C26: updateBalance is a read-then-write: when two updates of one user's
\* balance have each read it before the other wrote, the stored balance is
\* the balance they read plus the second writer's delta alone; the first
\* writer's delta is lost.
C26_LostUpdate ==
  \A t1, t2 \in 1..Len(tasks) :
    BothReadThenWrote(t1, t2) =>
      /\ tasks[t1].read = tasks[t2].read
      /\ kvUsers[tasks[t2].uid].balance = tasks[t2].read + tasks[t2].delta

\* two settlements have interleaved so, and the balance fell by less than
\* the sum of the two costs
C26_Witness ==
  \E t1, t2 \in 1..Len(tasks) :
    /\ BothReadThenWrote(t1, t2)
    /\ tasks[t1].via = "settle"
    /\ tasks[t2].via = "settle"
    /\ tasks[t1].delta < 0
    /\ tasks[t2].delta < 0
    /\ kvUsers[tasks[t2].uid].balance >
          tasks[t1].read + tasks[t1].delta + tasks[t2].delta

\* a completeOrder call for order n has finished
Completed(n) ==
  \E t \in 1..Len(tasks) :
    /\ tasks[t].op = "completeOrder"
    /\ tasks[t].tradeNo = LocalTradeNo(n)
    /\ tasks[t].pc \in Finished

\* C27: completeOrder calls made one after another for an order credit the
\* owner's balance with the order's money exactly once.
C27_SequentialIdempotent ==
  \A n \in 1..Len(kvOrders) :
    (AllFinished /\ Completed(n)) => Cardinality(CreditsOf(n)) = 1

\* C28: however concurrent completeOrder calls for one order interleave,
\* the owner's balance is credited with the order's money at most once.
C28_CreditedAtMostOnce ==
  \A n \in 1..Len(kvOrders) : Cardinality(CreditsOf(n)) <= 1

\* C29: once the completeOrder calls have finished, an order with status 1
\* has had its money credited to the owner's balance.
C29_PaidImpliesCredited ==
  AllFinished =>
    \A n \in 1..Len(kvOrders) :
      kvOrders[n].status = 1 => CreditsOf(n) # {}

\* C30: a correctly signed TRADE_SUCCESS notification for the payment of
\* order T, carrying out_trade_no = T and the platform's trade_no, is
\* answered success and leaves T paid and its money credited to the owner.
C30_NotifiedOrderPaid ==
  \A t \in 1..Len(tasks) :
    (/\ tasks[t].via = "notify"
     /\ tasks[t].op = "completeOrder"
     /\ tasks[t].pc \in Finished) =>
       /\ tasks[t].status = 200
       /\ kvOrders[tasks[t].paid].status = 1
       /\ CreditsOf(tasks[t].paid) # {}

\* C36: a request answered as an upstream error (502: the vendor call
\* failed, or the vendor body could not be read or converted) is never
\* billed: no updateBalance and no recordUsage call is made for it.
C36_UpstreamErrorNotBilled ==
  (pc = "failed" /\ status = 502) =>
    /\ CallsOf("dispatch") # {}
    /\ CallsOf("updateBalance") = {}
    /\ CallsOf("recordUsage") = {}
    /\ settlement = NoSettlement

\* a non-stream request whose vendor answered 2xx with a body that could
\* not be read or converted has been answered 502
C36_Witness ==
  /\ pc = "failed"
  /\ status = 502
  /\ ~body.stream
  /\ CallsOf("dispatch") # {}
  /\ ~VendorFailed

\* C37: the delta a settlement passes to updateBalance, minus the cost, is
\* never positive, for every model record the admin API stores, the stored
\* prices being non-negative.
C37_SettlementNeverCredits ==
  pc = "costed" =>
    /\ model.input_price >= 0
    /\ model.output_price >= 0
    /\ 0 - estimatedCost <= 0

\* C35: when the upstream stream has ended the line buffer is empty and
\* every vendor line that translates to a record, a last line without a
\* newline included, has had its record enqueued.
C35_NothingLeftUnprocessed ==
  (closed /\ pc = "off") =>
    /\ buffer = <<>>
    /\ \A n \in 1..Len(Split(TextDecode(whole))) :
          ProcessLine(ClosureState, Split(TextDecode(whole))[n], n,
                      channel.provider, model.model_id).out # <<>>
            => \E k \in 1..Len(enqueued) : enqueued[k].src = n

\* the call started by this step, if any
Started == Len(tasks') = Len(tasks) + 1
NewTask == tasks'[Len(tasks')]

\* the finished calls stay as they ended
RejectedStay ==
  \A t \in 1..Len(tasks) : tasks[t].pc = "rejected" => tasks'[t] = tasks[t]

C32_QueryOwnerOnly ==
  [][/\ (/\ Started
          /\ NewTask.via = "query"
          /\ \/ NewTask.caller = "none"
             \/ /\ HasOrder(NewTask.tradeNo)
                /\ getOrder(NewTask.tradeNo).uid # NewTask.caller) =>
            /\ NewTask.pc = "rejected"
            /\ NewTask.status = IF NewTask.caller = "none" THEN 401 ELSE 403
            /\ kvOrders' = kvOrders
            /\ kvUsers' = kvUsers
            /\ calls' = calls
     /\ RejectedStay
     /\ \A t \in 1..Len(tasks) :
           (tasks[t].via = "query" /\ tasks[t].op = "completeOrder") =>
             tasks[t].caller = getOrder(tasks[t].tradeNo).uid
    ]_vars

\* a query of u1's unpaid order by u2 has been answered 403
C32_Witness ==
  \E t \in 1..Len(tasks) :
    /\ tasks[t].via = "query"
    /\ tasks[t].caller = "u2"
    /\ tasks[t].status = 403
    /\ getOrder(tasks[t].tradeNo).uid = "u1"
    /\ getOrder(tasks[t].tradeNo).status = 0

\* C33: no updateBalance call stores a negative balance, so a balance that
\* was written is at least 0; a call whose result would be negative throws
\* and writes nothing.
C33_BalanceNeverNegative ==
  /\ \A k \in 1..Len(calls) :
        /\ calls[k].balance >= 0
        /\ kvUsers[calls[k].uid].balance >= 0
        /\ kvUsers[calls[k].uid].total_consumed >= 0
  /\ \A t \in 1..Len(tasks) : tasks[t].pc = "threw" => ~Wrote(t)

\* a settlement's debit of more than the balance has thrown, the balance
\* still 0
C33_Witness ==
  \E t \in 1..Len(tasks) :
    /\ tasks[t].via = "settle"
    /\ tasks[t].pc = "threw"
    /\ kvUsers[tasks[t].uid].balance = 0
    /\ kvUsers[tasks[t].uid].total_consumed = 0


\* ------------------------------------------------ login, session, logout
\* the clock stops here
MaxTime == 4

\* the sessions createSession may store
MaxSessions == 2

\* Date.now() counts ticks and JWT claims count seconds (part_002 182, 241:
\* Math.floor(Date.now() / 1000)); a second is this many ticks
TicksPerSecond == 2

\* the lifetime of a session and of its token, in seconds (index.js 109,
\* oauth.js 211: 7 * 24 * 60 * 60)
SessionLife == 1

\* the values generateState (oauth.js 71-75) may draw
States == {"s1", "s2"}

\* kv.delete(key) (oauth.js 125-127) on a set of stored keys; as it would be
\* if it left the key in place
delete_Keeps(keys, key) == keys

delete(keys, key) == keys \ {key}

\* getAdminList (oauth.js 563-570) of a client created with (hasEnv) or
\* without env: env.ADMIN_LIST when the client has it and it is non-empty,
\* else the stored config:admin_list
getAdminList(hasEnv) ==
  IF hasEnv /\ envAdminList # {} THEN envAdminList ELSE kvConfig.admin_list

\* isAdmin (oauth.js 575-578)
isAdmin(hasEnv, uid) == uid \in getAdminList(hasEnv)

\* upsertUser (oauth.js 162-180): the stored fields survive, a new record
\* starts at zero and unblocked
upsertUser(users, uid) ==
  (uid :> [uid |-> uid,
           balance |-> IF uid \in DOMAIN users THEN users[uid].balance ELSE 0,
           total_consumed |-> IF uid \in DOMAIN users
                              THEN users[uid].total_consumed ELSE 0,
           is_blocked |-> IF uid \in DOMAIN users
                          THEN users[uid].is_blocked ELSE FALSE]) @@ users

\* signJWT({uid, sid}, secret, expiresIn) (part_002 180-210)
signJWT(uid, sid, secret) ==
  [uid |-> uid, sid |-> sid, secret |-> secret,
   exp |-> (now \div TicksPerSecond) + SessionLife]

\* a token signed with a key the server never held
Forged == [uid |-> "u1", sid |-> 1, secret |-> "forged", exp |-> MaxTime]

\* verifyJWT(token, secret) (part_002 215-251): the payload, or null
verifyJWT(tok, secret) ==
  tok.secret = secret /\ ~(tok.exp < now \div TicksPerSecond)

\* getSession(sid) (oauth.js 229-239): the session, or null after deleting a
\* session past its expires_at; .sessions is the store after the call
getSession(sid) ==
  IF ~(sid \in 1..Len(kvSessions) /\ kvSessions[sid].stored)
  THEN [found |-> FALSE, sessions |-> kvSessions]
  ELSE IF now > kvSessions[sid].expires_at
       THEN [found |-> FALSE,
             sessions |-> [kvSessions EXCEPT ![sid].stored = FALSE]]
       ELSE [found |-> TRUE, sessions |-> kvSessions]

\* deleteSession(sid) (oauth.js 244-246); as it would be if it deleted nothing
deleteSession_Keeps(sessions, sid) == sessions

deleteSession(sessions, sid) == [sessions EXCEPT ![sid].stored = FALSE]

\* resolveUser(request, env) ([[default]].js 17-59) for a request carrying
\* tok (NoToken: no cookie and no bearer token): ctx.user's uid, ctx.session's
\* sid, and the session store after the call
resolveUser(tok) ==
  LET nobody == [user |-> "none", sid |-> 0, sessions |-> kvSessions]
  IN IF tok = NoToken THEN nobody
     ELSE IF kvConfig.jwt_secret = "none" THEN nobody
     ELSE IF ~verifyJWT(tok, kvConfig.jwt_secret) THEN nobody
     ELSE LET session == getSession(tok.sid)
          IN IF ~session.found
             THEN [nobody EXCEPT !.sessions = session.sessions]
             ELSE IF tok.uid \notin DOMAIN kvUsers THEN nobody
             ELSE [user |-> tok.uid, sid |-> tok.sid,
                   sessions |-> session.sessions]

\* the tokens a request may carry: none, a forged one, one the server issued
Carried == {NoToken, Forged} \cup {jar[k] : k \in 1..Len(jar)}

AuthFrame ==
  UNCHANGED <<xfVars, streamVars, kvUsage, hasWaitUntil, listVars, payVars,
              reqVars, callVars, envAdminList, kvChannels>>

AuthInit ==
  /\ NoRequest
  /\ channel = NoChannel
  /\ model = NoModel
  /\ inputTokens = 0
  /\ outputTokens = 0
  /\ NoTransformer
  /\ pc = "auth"
  /\ kvUsers = <<>>
  /\ kvUsage = <<>>
  /\ hasWaitUntil = TRUE
  /\ kvModels = <<>>
  /\ listing = NoListing
  /\ kvOrders = <<>>
  /\ tasks = <<>>
  /\ now = 0
  /\ envAdminList = {}
  /\ kvConfig \in {[oauth |-> o, jwt_secret |-> k, admin_list |-> {}] :
                     o \in BOOLEAN, k \in {"none", "k1"}}
  /\ kvStates = {}
  /\ kvSessions = <<>>
  /\ kvChannels = {}
  /\ jar = <<>>
  /\ reply = NoReply

\* time passes
Tick ==
  /\ now < MaxTime
  /\ now' = now + 1
  /\ UNCHANGED <<kvUsers, kvConfig, kvStates, kvSessions, jar, reply>>
  /\ AuthFrame

\* handleLogin (auth/index.js 14-35)
Login ==
  /\ \E state \in States :
       IF ~kvConfig.oauth
       THEN /\ reply' = [NoReply EXCEPT !.handler = "login", !.status = 500]
            /\ UNCHANGED kvStates
       ELSE /\ kvStates' = kvStates \cup {state}
            /\ reply' = [NoReply EXCEPT !.handler = "login", !.status = 302,
                                        !.state = state]
  /\ UNCHANGED <<now, kvUsers, kvConfig, kvSessions, jar>>
  /\ AuthFrame

\* handleCallback (auth/index.js 41-129) for ?code=&state=; outcome is what
\* exchangeCodeForToken and getUserInfo give: a uid, or "throw"
Callback ==
  /\ \E code \in BOOLEAN, state \in States \cup {"none"},
        outcome \in {"throw"} \cup
                    (IF Len(kvSessions) < MaxSessions THEN Uids ELSE {}) :
       LET answer(code_) == [NoReply EXCEPT !.handler = "callback",
                                            !.status = code_, !.code = code,
                                            !.state = state]
           sid == Len(kvSessions) + 1
           isFirstUser == outcome \notin DOMAIN kvUsers /\ DOMAIN kvUsers = {}
           jwt == signJWT(outcome, sid, kvConfig.jwt_secret)
       IN IF ~code \/ state = "none"
          THEN /\ reply' = answer(400)
               /\ UNCHANGED <<kvStates, kvUsers, kvConfig, kvSessions, jar>>
          ELSE IF state \notin kvStates
          THEN /\ reply' = answer(401)
               /\ UNCHANGED <<kvStates, kvUsers, kvConfig, kvSessions, jar>>
          ELSE /\ kvStates' = delete(kvStates, state)
               /\ IF ~kvConfig.oauth \/ kvConfig.jwt_secret = "none" \/
                     outcome = "throw"
                  THEN /\ reply' = answer(500)
                       /\ UNCHANGED <<kvUsers, kvConfig, kvSessions, jar>>
                  ELSE /\ kvUsers' = upsertUser(kvUsers, outcome)
                       /\ kvConfig' =
                            IF isFirstUser /\ ~isAdmin(TRUE, outcome)
                            THEN [kvConfig EXCEPT !.admin_list =
                                    getAdminList(TRUE) \cup {outcome}]
                            ELSE kvConfig
                       /\ kvSessions' =
                            Append(kvSessions,
                                   [uid |-> outcome, stored |-> TRUE,
                                    expires_at |->
                                      now + SessionLife * TicksPerSecond])
                       /\ jar' = Append(jar, jwt)
                       /\ reply' = [answer(302) EXCEPT !.cookie = jwt,
                                                       !.user = outcome,
                                                       !.sid = sid]
  /\ UNCHANGED now
  /\ AuthFrame

\* POST /api/auth/logout: resolveUser, then handleLogout (auth/index.js
\* 138-156)
Logout ==
  /\ \E tok \in Carried :
       LET ctx == resolveUser(tok)
       IN /\ kvSessions' = IF ctx.sid # 0
                           THEN deleteSession(ctx.sessions, ctx.sid)
                           ELSE ctx.sessions
          /\ reply' = [NoReply EXCEPT !.handler = "logout", !.status = 200,
                                      !.body = "cleared",
                                      !.user = ctx.user, !.sid = ctx.sid,
                                      !.tok = tok]
  /\ UNCHANGED <<now, kvUsers, kvConfig, kvStates, jar>>
  /\ AuthFrame

\* GET /api/auth/me: resolveUser, then handleMe (auth/index.js 162-182)
Me ==
  /\ \E tok \in Carried :
       LET ctx == resolveUser(tok)
       IN /\ kvSessions' = ctx.sessions
          /\ reply' = [NoReply EXCEPT
                         !.handler = "me",
                         !.status = IF ctx.user = "none" THEN 401 ELSE 200,
                         !.body = IF ctx.user = "none" THEN "none"
                                  ELSE IF isAdmin(TRUE, ctx.user)
                                       THEN "admin" ELSE "user",
                         !.user = ctx.user, !.sid = ctx.sid, !.tok = tok]
  /\ UNCHANGED <<now, kvUsers, kvConfig, kvStates, jar>>
  /\ AuthFrame

AuthNext ==
  \/ Tick
  \/ Login
  \/ Callback
  \/ Logout
  \/ Me

SpecAuth == AuthInit /\ [][AuthNext]_vars


\* ------------------------------------------------------------ /api/admin
\* the method and path pairs handleAdmin dispatches (part_001 371-415)
Routes ==
  {"GET /models", "POST /models", "DELETE /models/:id", "GET /channels",
   "POST /channels", "DELETE /channels/:id", "GET /users", "PUT /users/:uid",
   "GET /stats", "GET /settings", "POST /settings"}

\* what the body and path of an admin request carry: a model or channel id
\* (0: none given), a uid, a flag (enabled, the is_blocked of a body that
\* gives no balance, oauth.client_id given) and a jwt_secret ("none": not
\* given)
AdminArgs ==
  [id : 0..1, uid : Uids, flag : BOOLEAN, jwt_secret : {"none", "k2"}]

\* requireAdmin(ctx, env) (part_001 12-25): the status of the error it
\* returns, 0 for null; its client is created without env
requireAdmin(ctxUser) ==
  IF ctxUser = "none" THEN 401
  ELSE IF ~isAdmin(FALSE, ctxUser) THEN 403
  ELSE 0

\* setModel and deleteModel (oauth.js 472-478, 500-502) on the records in
\* key order
setModel(store, rec) ==
  SelectSeq(store, LAMBDA m : m.model_id < rec.model_id) \o <<rec>> \o
  SelectSeq(store, LAMBDA m : m.model_id > rec.model_id)

deleteModel(store, modelId) ==
  SelectSeq(store, LAMBDA m : m.model_id # modelId)

AdminInit ==
  /\ NoRequest
  /\ channel = NoChannel
  /\ model = NoModel
  /\ inputTokens = 0
  /\ outputTokens = 0
  /\ NoTransformer
  /\ pc = "admin"
  /\ kvUsers = [u \in Uids |->
                  [uid |-> u, balance |-> 0, total_consumed |-> 0,
                   is_blocked |-> FALSE]]
  /\ kvUsage = [u \in Uids |-> ZeroUsage]
  /\ hasWaitUntil = TRUE
  /\ kvModels = <<>>
  /\ listing = NoListing
  /\ kvOrders = <<>>
  /\ tasks = <<>>
  /\ now = 0
  /\ envAdminList \in {{}, {"u1"}}
  /\ kvConfig \in {[oauth |-> TRUE, jwt_secret |-> "k1", admin_list |-> a] :
                     a \in {{}, {"u2"}, {"u1", "u2"}}}
  /\ kvStates = {}
  /\ kvSessions = <<>>
  /\ kvChannels = {}
  /\ jar = <<>>
  /\ reply = NoReply

\* handleAdmin(request, env, ctx) (part_001 366-418) and the handler it
\* dispatches to (part_001 33-360), for a request of ctx.user caller
AdminRequest ==
  /\ \E route \in Routes \cup {"other"}, caller \in Uids \cup {"none"},
        arg \in AdminArgs :
       LET answer(code_, body_) ==
             [NoReply EXCEPT !.handler = "admin", !.status = code_,
                             !.body = body_, !.user = caller,
                             !.route = route]
           same == UNCHANGED <<kvModels, kvChannels, kvUsers, kvConfig>>
           denied == requireAdmin(caller)
       IN IF route = "other" THEN reply' = answer(404, "none") /\ same
          ELSE IF denied # 0 THEN reply' = answer(denied, "none") /\ same
          ELSE CASE route \in {"GET /models", "GET /channels", "GET /users",
                               "GET /stats", "GET /settings"} ->
                      reply' = answer(200, route) /\ same
                 [] route = "POST /models" ->
                      IF arg.id = 0
                      THEN reply' = answer(400, "none") /\ same
                      ELSE /\ kvModels' =
                                setModel(kvModels, [model_id |-> arg.id,
                                                    enabled |-> arg.flag])
                           /\ reply' = answer(200, "success")
                           /\ UNCHANGED <<kvChannels, kvUsers, kvConfig>>
                 [] route = "DELETE /models/:id" ->
                      /\ kvModels' = deleteModel(kvModels, arg.id)
                      /\ reply' = answer(200, "success")
                      /\ UNCHANGED <<kvChannels, kvUsers, kvConfig>>
                 [] route = "POST /channels" ->
                      IF arg.id = 0
                      THEN reply' = answer(400, "none") /\ same
                      ELSE /\ kvChannels' = kvChannels \cup {arg.id}
                           /\ reply' = answer(200, "success")
                           /\ UNCHANGED <<kvModels, kvUsers, kvConfig>>
                 [] route = "DELETE /channels/:id" ->
                      /\ kvChannels' = delete(kvChannels, arg.id)
                      /\ reply' = answer(200, "success")
                      /\ UNCHANGED <<kvModels, kvUsers, kvConfig>>
                 [] route = "PUT /users/:uid" ->
                      IF arg.uid \notin DOMAIN kvUsers
                      THEN reply' = answer(404, "none") /\ same
                      ELSE /\ kvUsers' = [kvUsers EXCEPT
                                            ![arg.uid].is_blocked = arg.flag]
                           /\ reply' = answer(200, "user")
                           /\ UNCHANGED <<kvModels, kvChannels, kvConfig>>
                 [] route = "POST /settings" ->
                      /\ kvConfig' =
                           [kvConfig EXCEPT
                              !.oauth = IF arg.id = 0 THEN @ ELSE arg.flag,
                              !.jwt_secret = IF arg.jwt_secret = "none"
                                             THEN @ ELSE arg.jwt_secret]
                      /\ reply' = answer(200, "success")
                      /\ UNCHANGED <<kvModels, kvChannels, kvUsers>>
  /\ UNCHANGED <<xfVars, streamVars, kvUsage, hasWaitUntil, listing, payVars,
                 reqVars, callVars, now, envAdminList, kvStates, kvSessions,
                 jar>>

SpecAdmin == AdminInit /\ [][AdminRequest]_vars

\* ------------------------------------------------------------------ C40
\* C40: a request under /api/admin from a caller who is not signed in, or
\* who is not in the admin list (env.ADMIN_LIST, or else the stored
\* admin_list: getAdminList), is answered 401 or 403 on every route the
\* router dispatches, shows nothing and changes no model, channel, user or
\* settings record
C40_AdminOnly ==
  [][(reply'.handler = "admin" /\ reply' # reply /\
      reply'.route \in Routes /\
      (reply'.user = "none" \/ ~isAdmin(TRUE, reply'.user))) =>
       /\ reply'.status = IF reply'.user = "none" THEN 401 ELSE 403
       /\ reply'.body = "none"
       /\ UNCHANGED <<kvModels, kvChannels, kvUsers, kvConfig>>]_vars

\* the same for the admin list requireAdmin consults, the stored admin_list
C40_StoredListOnly ==
  [][(reply'.handler = "admin" /\ reply' # reply /\
      reply'.route \in Routes /\
      (reply'.user = "none" \/ ~isAdmin(FALSE, reply'.user))) =>
       /\ reply'.status = IF reply'.user = "none" THEN 401 ELSE 403
       /\ reply'.body = "none"
       /\ UNCHANGED <<kvModels, kvChannels, kvUsers, kvConfig>>]_vars

\* ------------------------------------------------------------------ C34
\* the sum of the entries of a per-model map, field by field
RECURSIVE ModelsSum(_)
ModelsSum(models) ==
  IF DOMAIN models = {} THEN ZeroStats
  ELSE LET m == CHOOSE k \in DOMAIN models : TRUE
           rest == ModelsSum([k \in DOMAIN models \ {m} |-> models[k]])
       IN [requests |-> models[m].requests + rest.requests,
           input_tokens |-> models[m].input_tokens + rest.input_tokens,
           output_tokens |-> models[m].output_tokens + rest.output_tokens,
           cost |-> models[m].cost + rest.cost]

CallbackStep ==
  /\ reply'.handler = "callback"
  /\ now' = now
  /\ reply' # reply \/ kvStates' # kvStates \/ kvSessions' # kvSessions

\* the callback created no user, no session, no admin and no cookie
NothingCreated ==
  /\ UNCHANGED <<kvUsers, kvSessions, kvConfig, jar>>
  /\ reply'.cookie = NoToken

\* C38: an OAuth state is single-use. handleCallback goes past the state
\* check only for a state that is stored, and then removes it, whether or
\* not it goes on to create a user and a session; a callback whose state is
\* not stored is answered 401 (400 without code or state) and creates
\* nothing; and the callback that follows an accepted callback with the same
\* state is answered 401 and creates nothing
C38_StateSingleUse ==
  [][CallbackStep =>
       LET s == reply'.state
       IN /\ reply'.status \in {302, 500} =>
               s \in kvStates /\ s \notin kvStates'
          /\ (kvUsers' # kvUsers \/ kvSessions' # kvSessions \/
              reply'.cookie # NoToken) =>
               reply'.status = 302 /\ s \in kvStates /\ s \notin kvStates'
          /\ s \notin kvStates =>
               /\ reply'.status = IF reply'.code /\ s # "none"
                                  THEN 401 ELSE 400
               /\ NothingCreated
               /\ UNCHANGED kvStates
          /\ (reply.handler = "callback" /\ reply.status \in {302, 500} /\
              reply.state = s /\ reply'.code) =>
               reply'.status = 401 /\ NothingCreated]_vars

\* a callback was answered 401 for a state that is not stored, after a
\* callback had created a session
C38_Witness ==
  /\ reply.handler = "callback"
  /\ reply.status = 401
  /\ reply.state \in States \ kvStates
  /\ Len(kvSessions) >= 1
  /\ Len(jar) = Len(kvSessions)

\* ------------------------------------------------------------------ C39
\* the step is an answer of a handler that ran behind resolveUser
ResolveStep ==
  /\ reply'.handler \in {"logout", "me"}
  /\ now' = now
  /\ reply' # reply \/ kvSessions' # kvSessions

\* C39: handleLogout deletes the session it ran with; a request carrying an
\* issued token whose session is deleted, or past its expires_at, runs with
\* ctx.user null, and the expired session is deleted by the lookup that
\* finds it; a deleted session is never stored again
C39_LoggedOutStaysOut ==
  [][/\ ResolveStep =>
          /\ (reply'.handler = "logout" /\ reply'.sid # 0) =>
                ~kvSessions'[reply'.sid].stored
          /\ \A k \in 1..Len(jar) :
               (reply'.tok = jar[k] /\
                (~kvSessions[k].stored \/ now > kvSessions[k].expires_at)) =>
                 /\ reply'.user = "none"
                 /\ reply'.sid = 0
                 /\ (kvSessions[k].stored /\
                     verifyJWT(jar[k], kvConfig.jwt_secret)) =>
                      ~kvSessions'[k].stored
     /\ \A k \in 1..Len(kvSessions) :
          ~kvSessions[k].stored =>
            k <= Len(kvSessions') /\ ~kvSessions'[k].stored]_vars

\* GET /api/auth/me was answered 401 for a token whose signature and expiry
\* are valid and whose session, not yet past its expires_at, was logged out
C39_Witness ==
  /\ reply.handler = "me"
  /\ reply.status = 401
  /\ \E k \in 1..Len(jar) :
       /\ reply.tok = jar[k]
       /\ verifyJWT(jar[k], kvConfig.jwt_secret)
       /\ ~kvSessions[k].stored
       /\ now <= kvSessions[k].expires_at

\* an expired session was deleted by the lookup of a request whose token was
\* still valid
C39_ExpiredWitness ==
  /\ reply.handler = "me"
  /\ reply.status = 401
  /\ \E k \in 1..Len(jar) :
       /\ reply.tok = jar[k]
       /\ verifyJWT(jar[k], kvConfig.jwt_secret)
       /\ ~kvSessions[k].stored
       /\ now > kvSessions[k].expires_at

====
